---- MODULE Spec2Model ----
(***************************************************************************)
(* Verification model of the recorder side of ShogunDashboard:             *)
(*   - HyperDeckClient  (src/hyperdeck/hyperdeck_client.py), one asyncio   *)
(*     protocol engine per recorder;                                       *)
(*   - HyperDeckManager (src/hyperdeck/hyperdeck_manager.py), the asyncio  *)
(*     fleet with gather() fan-out;                                        *)
(*   - HyperDeckWorker  (src/hyperdeck/hyperdeck_worker.py), the threaded  *)
(*     fleet with update_devices (reconcile).                              *)
(*   - ShogunOSCApp     (src/gui/main_window.py) with ShogunWorker         *)
(*     (src/shogun/shogun_client.py): start_all_recordings and             *)
(*     stop_all_recordings over the capture source and the worker.         *)
(*                                                                         *)
(* asyncio is modelled as it runs: coroutines are cut at the awaits that   *)
(* really suspend; everything between two suspensions is one atomic step.  *)
(* A coroutine that is ready to run runs before the loop serves a timer or *)
(* an I/O event that comes later; ready coroutines run in any order.       *)
(* asyncio.CancelledError is a BaseException (Python >= 3.8), so it is not *)
(* caught by "except Exception".  The device is the environment: it picks  *)
(* the first line of a session, may answer commands and may drop the link. *)
(* Status codes are the 3-digit codes of the wire protocol.                *)
(***************************************************************************)
EXTENDS Integers, Sequences, FiniteSets, TLC

\* ------------------------------------------------------------------ bounds
NumUsers == 2        \* coroutines calling record/stop/update_clips on one engine
MaxConnects == 2     \* sessions the owner of one engine asks connect() for
MaxCode == 999       \* largest status code handed to the response classifier
NumDev == 3          \* device ids a HyperDeckManager is given
MaxList == 2         \* entries of a configured device list, and their ids
MaxOps == 3          \* start_all_recordings / stop_all_recordings calls made
MaxPids == 2         \* pids the Shogun Live process is seen with

\* ------------------------------------------------------- program constants
DefaultPort == 9993
WelcomeCode == 500
TransportInfoCode == 208
ErrorLow == 100
ErrorHigh == 200
AsyncLow == 500
AsyncHigh == 600
MaxReconnectAttempts == 10
BaseReconnectDelay == 1
MaxReconnectDelay == 15
TicksPerSecond == 10
MaxErrorCount == 5
ProcessCheckInterval == 2
MaxProcessCheckInterval == 5

VARIABLES
    transport,   \* HyperDeckClient._transport: "none" | "open" | "closing"
    link,        \* TRUE while the TCP session behind _transport is alive
    connected,   \* HyperDeckClient.connected
    recording,   \* HyperDeckClient.recording
    stopping,    \* HyperDeckClient._stopping
    slot,        \* HyperDeckClient._response_future: "none" or a future
    fstate,      \* state of the asyncio.Future last created by each task
    fwritten,    \* futures whose command text reached the socket
    freplied,    \* written commands the device has answered (status 200)
    task,        \* the coroutines running on the engine's event loop
    nconn,       \* sessions the owner's connect() calls asked for so far
    csig,        \* the last emission of HyperDeckClient.connection_signal
    rsig,        \* the last emission of HyperDeckClient.recording_signal
    inbox,       \* the commands the device still has to answer, oldest first
    wire,        \* the reply line _receive is about to read, or NoLine
    \* ---- HyperDeckManager
    mdevices,    \* HyperDeckManager.devices: the ids it holds an engine for
    mengine,     \* the engine held for each id, summarised
    mrecording,  \* HyperDeckManager.recording
    fan,         \* the asyncio.gather fan-out in flight, if any
    mret,        \* what the last connect_all/start_recording/stop_recording returned
    merrors,     \* HyperDeckManager.error_signal emissions of the last operation
    \* ---- HyperDeckWorker
    wloop,       \* HyperDeckWorker.loop exists (run() has created it)
    wdevices,    \* HyperDeckWorker.devices: the client held for each id
    wcalled,     \* update_devices has just returned
    wdesired,    \* the device list it was called with
    wlog,        \* the sessions it closed and asked for, in order
    wconnected,  \* the ids whose client has connected = True
    \* ---- ShogunOSCApp (main window), ShogunWorker, Shogun Live
    sconnected,  \* ShogunWorker.connected
    squeue,      \* coroutines run_coroutine_threadsafe handed to ShogunWorker.loop
    scapturing,  \* Shogun Live is capturing (latest_capture_state is Started)
    hdenabled,   \* config.HYPERDECK_ENABLED and self.hyperdeck_worker
    ocalls,      \* start_all_recordings / stop_all_recordings calls so far
    olog,        \* what these calls and the Shogun thread did, in order
    \* ---- ShogunWorker (the link to Shogun Live) and Shogun Live itself
    lloop,       \* ShogunWorker.loop exists (run() has started)
    lrunning,    \* ShogunWorker.running
    lpid,        \* ShogunWorker.shogun_pid, 0 for None
    lalive,      \* shogun_running, the result of run()'s last process probe
    lclient,     \* ShogunWorker.shogun_client and capture are set
    lname,       \* ShogunWorker._current_capture_name
    lrec,        \* ShogunWorker._is_recording
    lpint,       \* ShogunWorker._process_check_interval, in 1/DelayUnit s
    lsaid,       \* the value recording_signal was last emitted with, if any
    lemit,       \* the signals the last step of the link emitted, in order
    lop,         \* what the last startcapture() / stopcapture() did
    rc,          \* the reconnect_shogun() cycle in progress
    shpid,       \* pid of the Shogun Live process, 0 when it does not run
    shname,      \* the capture name set in Shogun Live
    shapi,       \* the API of Shogun Live answers (while its process runs)
    \* ---- HyperDeckWorker.run
    wpass,       \* the monitoring pass: the held clients it still has to visit
    werrs        \* HyperDeckWorker._error_count

engineVars == <<transport, link, connected, recording, stopping, slot, fstate,
                fwritten, freplied, task, nconn, csig, rsig, inbox>>
managerVars == <<mdevices, mengine, mrecording, fan, mret, merrors>>

workerVars == <<wloop, wdevices, wcalled, wdesired, wlog, wconnected>>

orchVars == <<sconnected, squeue, scapturing, hdenabled, ocalls, olog>>

linkVars == <<lloop, lrunning, lpid, lalive, lclient, lname, lrec, lpint,
              lsaid, lemit, lop, rc, shpid, shname, shapi>>

passVars == <<wpass, werrs>>

vars == <<engineVars, wire, managerVars, workerVars, orchVars, linkVars,
          passVars>>

\* =========================================================================
\*  HyperDeckClient: one protocol engine
\* =========================================================================
UserNames == <<"u1", "u2", "u3">>
Users == {UserNames[i] : i \in 1..NumUsers}
Tasks == {"conn", "poll", "poll2", "disc"} \cup Users
UserOps == {"record", "stop", "clips"}

\* A future is named after the task whose _send_command created it; a task
\* has at most one future that can still be reached through the slot or by
\* its own wait_for.  "lost" names a pending future that neither the slot
\* nor its creator refers to any more: nothing can complete it.
None == "none"
Lost == "lost"

\* the value of inbox where the answers of the device are not followed
NotFollowed == <<Lost>>

\* first lines a device can send: a 3-digit status code of each band (with
\* or without a "status: record" body), or text that is not a number
Garbage == -1
Codes == {100, 200, 500, 599}
Lines == [code : Codes \cup {Garbage}, rec : {FALSE}]
             \cup [code : {TransportInfoCode}, rec : BOOLEAN]
NoLine == [code |-> Garbage, rec |-> TRUE]

\* the three results _send_command builds itself, and a reply
NoResult == [kind |-> "none", error |-> TRUE, code |-> 0, rec |-> FALSE]
NotConnected == [kind |-> "notconn", error |-> TRUE, code |-> 0, rec |-> FALSE]
TimeoutResult == [kind |-> "timeout", error |-> TRUE, code |-> 0, rec |-> FALSE]
ErrorResult == [kind |-> "error", error |-> TRUE, code |-> 0, rec |-> FALSE]

\* the engine's state as one record, so that the synchronous part of a
\* coroutine can be written as a function from state to state
E == [transport |-> transport, link |-> link, connected |-> connected,
      recording |-> recording, stopping |-> stopping, slot |-> slot,
      fstate |-> fstate, fwritten |-> fwritten, freplied |-> freplied,
      task |-> task, nconn |-> nconn, csig |-> csig, rsig |-> rsig,
      inbox |-> inbox, ovf |-> FALSE]

\* pc: where the coroutine is; sc: where its _send_command is; wait: the
\* future awaited at line 290; wake: how that await ended; res: the result
\* its own future was resolved with; ret: what its last call returned
NewTask(pc0) == [pc |-> pc0, sc |-> "none", wait |-> None, wake |-> "none",
                 res |-> NoResult, ret |-> "none"]

\* the tasks of an engine nothing has been called on.  "poll" is the task
\* _polling_task refers to (none yet: "dead"); "poll2" is a polling loop
\* created before it that still runs ("dead": there is none; "absent": there
\* is none and a second loop is beyond what is followed); "disc" is the
\* owner's disconnect()
RestTask(t) == NewTask(CASE t = "poll" -> "dead" [] t = "poll2" -> "absent"
                         [] OTHER -> "idle")

\* _receive, lines 398-399: the two bands of the response classifier
IsError(code) == code >= ErrorLow /\ code < ErrorHigh
IsAsyncAbove(code) == code > AsyncLow /\ code < AsyncHigh
IsAsync(code) == code >= AsyncLow /\ code < AsyncHigh

\* _receive, lines 403-407
Reply(code, rec) == [kind |-> "reply", error |-> IsError(code), code |-> code,
                     rec |-> rec]

\* "response and not response.get('error', True)"
SuccessAny(r) == r.kind = "reply"
Success(r) == ~r.error

\* ---- asyncio.Future -------------------------------------------------------
\* Future.set_result / set_exception / cancel on the future created by f:
\* it is done and every coroutine suspended on it is made ready to run
Complete(e, f, how, r) ==
    [e EXCEPT !.fstate[f] = how,
              !.task = [t \in Tasks |->
                  IF e.task[t].sc = "waitprev" /\ e.task[t].wait = f
                  THEN [e.task[t] EXCEPT !.sc = "ready", !.wait = None,
                            !.wake = IF how = "cancelled" THEN "cancelled"
                                                          ELSE "ok"]
                  ELSE IF t = f /\ e.task[t].sc = "waitreply"
                          /\ how # "cancelled"
                  THEN [e.task[t] EXCEPT !.sc = "resolved", !.res = r]
                  ELSE e.task[t]]]

\* futures nothing refers to any more are garbage
Owned(e) == {t \in Tasks : e.task[t].sc \in {"waitreply", "resolved", "timedout"}}
Referenced(e) == {e.slot} \cup Owned(e) \cup {e.task[t].wait : t \in Tasks}
Gc(e) ==
    LET dead == Tasks \ Referenced(e) IN
    [e EXCEPT !.fstate = [f \in Tasks |-> IF f \in dead THEN "unused" ELSE @[f]],
              !.fwritten = @ \ dead,
              !.freplied = @ \ dead]

\* the same engine with the two polling loops exchanging their names
Sw(x) == CASE x = "poll" -> "poll2" [] x = "poll2" -> "poll" [] OTHER -> x
Swap(e) ==
    [e EXCEPT !.task = [t \in Tasks |-> [e.task[Sw(t)] EXCEPT !.wait = Sw(@)]],
              !.fstate = [t \in Tasks |-> e.fstate[Sw(t)]],
              !.fwritten = {Sw(t) : t \in @},
              !.freplied = {Sw(t) : t \in @},
              !.slot = Sw(@)]

\* connection_signal.emit(device_id, v): the value, and a bit that flips on
\* every emission
NoSignal == [val |-> FALSE, seq |-> 0]
Emit(e, v) == [e EXCEPT !.csig = [val |-> v, seq |-> 1 - @.seq]]

\* recording_signal.emit(device_id, v): the value, and a mark that changes
\* on every emission and is 0 only before the first one
EmitRecording(e, v) ==
    [e EXCEPT !.rsig = [val |-> v, seq |-> IF @.seq = 1 THEN 2 ELSE 1]]

\* ---- how a coroutine ends ----------------------------------------------
\* record()/stop()/update_clips() called by a user returns (or raises)
UserDone(e, t, ret) ==
    [e EXCEPT !.task[t] = [NewTask("idle") EXCEPT !.ret = ret]]

\* connect() returns True / False, or ends with an exception it did not catch
ConnDone(e, ret) == [e EXCEPT !.task["conn"] = [NewTask("idle") EXCEPT !.ret = ret]]

\* connect(), lines 90-92
ConnSucceed(e) == ConnDone(Emit([e EXCEPT !.connected = TRUE], TRUE), "true")

\* _close_connection as called from connect(): close() is synchronous,
\* wait_closed() suspends, _transport is reset in the finally clause
ConnClose(e, pcClosing) ==
    IF e.transport # "none"
    THEN [e EXCEPT !.transport = "closing", !.task["conn"].pc = pcClosing]
    ELSE ConnDone(Emit(e, FALSE), "false")

\* connect(), line 85: asyncio.create_task(self._poll_state())
\* _polling_task is overwritten: a loop it referred to goes on running
SpawnPoll(e) ==
    IF e.task["poll"].pc = "dead" THEN [e EXCEPT !.task["poll"] = NewTask("start")]
    ELSE IF e.task["poll2"].pc = "dead"
    THEN [Swap(e) EXCEPT !.task["poll"] = NewTask("start")]
    ELSE [e EXCEPT !.ovf = TRUE]

\* _poll_state ends (the loop condition is false, or CancelledError leaves
\* it): a disconnect() that awaits the task, line 110, is made ready to run
PollEnded(e) ==
    [e EXCEPT !.task["poll"] = NewTask("dead"),
              !.task["disc"] = IF @.pc = "d_wait" /\ @.wait = "poll"
                               THEN [@ EXCEPT !.pc = "d_woken", !.wait = None]
                               ELSE @]

\* _poll_state, lines 320-329, from the except clause on
PollFailedSwallowed(e) == [e EXCEPT !.task["poll"].pc = "sleep1"]
PollFailed(e) ==
    IF e.stopping THEN [e EXCEPT !.task["poll"].pc = "sleep1"]
    ELSE IF e.transport # "none"
    THEN [e EXCEPT !.transport = "closing", !.task["poll"].pc = "closing"]
    ELSE Emit([e EXCEPT !.connected = FALSE, !.task["poll"].pc = "sleep5"], FALSE)

\* an exception leaves _send_command: "io" is an Exception (a failed write),
\* "cancel" is asyncio.CancelledError
Raise(e, t, x) ==
    LET e0 == [e EXCEPT !.task[t].sc = "none", !.task[t].wait = None,
                        !.task[t].wake = "none"] IN
    CASE t \in Users ->
             UserDone(e0, t, IF x = "io" THEN "raised_io" ELSE "raised_cancel")
      [] t = "conn" ->
             IF x = "io" THEN ConnClose(e0, "closing_exc")
             ELSE ConnDone(e0, "raised")
      [] t = "poll" ->
             IF x = "io" THEN PollFailed(e0) ELSE PollEnded(e0)
      [] t = "poll2" ->
             Swap(IF x = "io" THEN PollFailed(Swap(e0)) ELSE PollEnded(Swap(e0)))

\* _send, lines 344-351, after the new future was put in the slot
Send(e, t) ==
    IF e.transport = "none"
    THEN [e EXCEPT !.task[t].sc = "waitreply"]
    ELSE IF e.transport = "closing" \/ ~e.link
    THEN Raise(e, t, "io")
    ELSE [e EXCEPT !.fwritten = @ \cup {t}, !.task[t].sc = "waitreply"]

\* _send_command, lines 294-302: new future into the slot, write, wait.
\* Coroutines still suspended on the future t created before lose it.
ScWrite(e, t) ==
    Send([e EXCEPT !.slot = t, !.fstate[t] = "pending",
                   !.fwritten = @ \ {t}, !.freplied = @ \ {t},
                   !.task = [u \in Tasks |->
                       IF u = t THEN [@[u] EXCEPT !.wait = None, !.wake = "none"]
                       ELSE IF @[u].wait = t THEN [@[u] EXCEPT !.wait = Lost]
                       ELSE @[u]]], t)

RECURSIVE ScEnter(_, _), Return(_, _, _)

\* _send_command, lines 284-292: entry, up to the first suspension
ScEnterNoWait(e, t) ==
    IF e.transport = "none" THEN Return(e, t, NotConnected) ELSE ScWrite(e, t)
ScEnter(e, t) ==
    IF e.transport = "none" THEN Return(e, t, NotConnected)
    ELSE IF e.slot # None
    THEN CASE e.fstate[e.slot] = "pending" ->
                  [e EXCEPT !.task[t].sc = "waitprev", !.task[t].wait = e.slot]
           [] e.fstate[e.slot] = "cancelled" -> Raise(e, t, "cancel")
           [] OTHER -> ScWrite(e, t)
    ELSE ScWrite(e, t)

\* what a user call reports: the result of its _send_command
RetOf(r) == IF r.kind = "reply" THEN (IF r.error THEN "reply_error" ELSE "reply_ok")
            ELSE r.kind

\* _send_command returned r to the coroutine of task t: the rest of
\* record (139-152), stop (166-179), update_clips (195-219),
\* update_status (233-256), connect (84-92)
Return(e, t, r) ==
    LET tk == e.task[t]
        e0 == [e EXCEPT !.task[t].sc = "none", !.task[t].wait = None,
                        !.task[t].wake = "none", !.task[t].res = NoResult]
    IN
    CASE t \in Users /\ tk.pc = "record" ->
             UserDone(IF Success(r)
                      THEN EmitRecording([e0 EXCEPT !.recording = TRUE], TRUE)
                      ELSE e0,
                      t, RetOf(r))
      [] t \in Users /\ tk.pc = "stop" ->
             UserDone(IF Success(r)
                      THEN EmitRecording([e0 EXCEPT !.recording = FALSE], FALSE)
                      ELSE e0,
                      t, RetOf(r))
      [] t \in Users /\ tk.pc = "clips" -> UserDone(e0, t, RetOf(r))
      [] t = "conn" /\ tk.pc = "c_notify" ->
             LET e1 == SpawnPoll(e0) IN
             IF e1.transport = "none" THEN ConnSucceed(e1)
             ELSE ScEnter([e1 EXCEPT !.task["conn"].pc = "c_clips"], "conn")
      [] t = "conn" /\ tk.pc = "c_clips" -> ConnSucceed(e0)
      [] t = "poll" ->
             LET e1 == IF r.kind = "reply" /\ r.code = TransportInfoCode
                          /\ r.rec # e0.recording
                       THEN EmitRecording([e0 EXCEPT !.recording = r.rec], r.rec)
                       ELSE e0 IN
             [e1 EXCEPT !.task["poll"].pc = "sleep1"]
      [] t = "poll2" -> Swap(Return(Swap(e), "poll", r))

\* _receive, lines 391-413: the reply is matched against the pending future
Receive(e, l) ==
    IF e.slot # None /\ e.fstate[e.slot] = "pending"
    THEN IF l.code = Garbage THEN Complete(e, e.slot, "done", ErrorResult)
         ELSE IF ~IsAsync(l.code)
         THEN Complete(e, e.slot, "done", Reply(l.code, l.rec))
         ELSE e
    ELSE e

\* connect(), lines 57-59, then the await of open_connection
ConnStart(e) ==
    IF e.transport # "none" THEN ConnDone(e, "true")
    ELSE [e EXCEPT !.task["conn"].pc = "open"]

\* record / stop / update_clips, up to the first suspension
Call(e, t, op) ==
    LET e1 == [e EXCEPT !.task[t] = NewTask(op)] IN
    IF e1.transport = "none" THEN UserDone(e1, t, "false")
    ELSE ScEnter(e1, t)

\* _poll_state, lines 324-329: _close_connection has returned
PollClosed(e) ==
    Emit([e EXCEPT !.transport = "none", !.link = FALSE,
                   !.connected = FALSE, !.task["poll"].pc = "sleep5"], FALSE)

\* _poll_state, lines 329-335: after the 5 s
PollRetry(e) ==
    IF e.stopping THEN [e EXCEPT !.task["poll"].pc = "sleep1"]
    ELSE IF e.task["conn"].pc = "idle"
    THEN [e EXCEPT !.task["conn"] = NewTask("spawned"),
                   !.task["poll"].pc = "sleep1"]
    ELSE [e EXCEPT !.ovf = TRUE]

\* ---- disconnect() --------------------------------------------------------
\* Future.cancel() by a coroutine other than the creator f of the future:
\* wait_for in f's _send_command ends with CancelledError
CancelFuture(e, f) ==
    LET e1 == Complete(e, f, "cancelled", NoResult) IN
    IF e.task[f].sc = "waitreply" /\ e.fstate[f] = "pending"
    THEN [e1 EXCEPT !.task[f].sc = "ready", !.task[f].wake = "cancelled"]
    ELSE e1

\* disconnect(), line 108: Task.cancel() on the loop _polling_task refers to.
\* The future the loop is suspended on is cancelled at once; CancelledError
\* is thrown into the loop when it runs next
CancelPoll(e) ==
    LET tk == e.task["poll"]
        e1 == CASE tk.sc = "waitprev" /\ tk.wait \in Tasks ->
                       CancelFuture(e, tk.wait)
                [] tk.sc = "waitreply" /\ e.fstate["poll"] = "pending" ->
                       Complete(e, "poll", "cancelled", NoResult)
                [] OTHER -> e
    IN [e1 EXCEPT !.task["poll"].sc = "cancel", !.task["poll"].wait = None,
                  !.task["poll"].wake = "none"]

\* CancelledError reaches the loop at its await: inside _close_connection
\* the finally clause (line 426) runs; nothing in _poll_state catches it
PollCancelled(e) ==
    PollEnded(IF e.task["poll"].pc = "closing"
              THEN [e EXCEPT !.transport = "none", !.link = FALSE]
              ELSE e)

\* disconnect(), lines 116-118
DiscDone(e) ==
    Emit([e EXCEPT !.connected = FALSE, !.stopping = FALSE,
                   !.task["disc"] = [NewTask("idle") EXCEPT !.ret = "done"]],
         FALSE)

\* disconnect(), line 115: _close_connection up to wait_closed
DiscClose(e) ==
    IF e.transport # "none"
    THEN [e EXCEPT !.transport = "closing", !.task["disc"].pc = "d_closing"]
    ELSE DiscDone(e)

\* disconnect(), lines 104-112; awaiting a task that has ended does not
\* suspend
Disconnect(e) ==
    LET e1 == [e EXCEPT !.stopping = TRUE, !.task["disc"] = NewTask("d_start")]
    IN IF e1.task["poll"].pc = "dead" THEN DiscClose(e1)
       ELSE [CancelPoll(e1) EXCEPT !.task["disc"].pc = "d_wait",
                                   !.task["disc"].wait = "poll"]

\* _poll_state, lines 316-319: the head of the loop
PollLoop(e) ==
    IF e.stopping THEN PollEnded(e)
    ELSE IF e.transport # "none"
    THEN ScEnter([e EXCEPT !.task["poll"].pc = "status"], "poll")
    ELSE [e EXCEPT !.task["poll"].pc = "sleep1"]

\* ---- the event loop ---------------------------------------------------
\* a coroutine the loop has already scheduled to run
IsReady(t) ==
    \/ task[t].sc \in {"ready", "resolved", "timedout", "cancel"}
    \/ task[t].pc \in {"spawned", "start", "d_woken"}

\* nothing is scheduled: the loop waits for timers and I/O
Quiet == \A t \in Tasks : ~IsReady(t)

\* ---- the engine's steps -------------------------------------------------
\* _send, line 349: the task whose command text this step wrote, if any
Sent(e2) == {t \in e2.fwritten : /\ e2.task[t].sc = "waitreply"
                                 /\ task[t].sc # "waitreply"}

\* the device receives what was written; it is followed while no caller has
\* two commands unanswered
Unanswered(e2) ==
    IF e2.inbox = NotFollowed THEN {}
    ELSE {e2.inbox[i] : i \in DOMAIN e2.inbox}
Received(e2) ==
    IF e2.inbox = NotFollowed \/ Sent(e2) = {} THEN e2.inbox
    ELSE Append(e2.inbox, CHOOSE t \in Sent(e2) : TRUE)

\* the step ends in state e2 (cut off when e2 is beyond the model's bounds)
SetEngine(e) ==
    LET e2 == Gc(e) IN
    /\ ~e2.ovf
    /\ Sent(e2) \cap Unanswered(e2) = {}
    /\ inbox' = Received(e2)
    /\ transport' = e2.transport /\ link' = e2.link
    /\ connected' = e2.connected /\ recording' = e2.recording
    /\ stopping' = e2.stopping /\ slot' = e2.slot
    /\ fstate' = e2.fstate
    /\ fwritten' = e2.fwritten /\ freplied' = e2.freplied
    /\ task' = e2.task /\ nconn' = e2.nconn
    /\ csig' = e2.csig /\ rsig' = e2.rsig

\* a step of the engine in operation: no reply line is under classification
SetE(e) ==
    /\ SetEngine(e)
    /\ UNCHANGED <<wire, managerVars, workerVars, orchVars, linkVars, passVars>>

\* the owner of the engine calls connect(); the calls that go on to open a
\* session are counted
ConnectCall ==
    /\ task["conn"].pc = "idle"
    /\ transport = "none" => nconn < MaxConnects
    /\ SetE(ConnStart([E EXCEPT !.nconn = IF transport = "none" THEN @ + 1 ELSE @,
                                !.task["conn"] = NewTask("idle")]))

\* the connect() task created by _poll_state gets to run
ConnectRun ==
    /\ task["conn"].pc = "spawned"
    /\ SetE(ConnStart(E))

\* connect(), lines 65-72 and 94-99: open_connection returns or raises
OpenResult(ok) ==
    /\ task["conn"].pc = "open"
    /\ Quiet
    /\ SetE(IF ok THEN [E EXCEPT !.transport = "open", !.link = TRUE,
                                 !.task["conn"].pc = "welcome"]
            ELSE ConnClose(E, "closing_exc"))

RECURSIVE Prefix3(_)
\* the first three digits of the decimal text of a status code
Prefix3(code) == IF code >= 1000 THEN Prefix3(code \div 10) ELSE code

\* connect(), line 73: welcome[0].startswith('500')
IsWelcomeBand(l) == IsAsync(l.code)
IsWelcome(l) == l.code # Garbage /\ Prefix3(l.code) = WelcomeCode

\* connect(), lines 72-82, with the first line of the session
WelcomeRead(e, l) ==
    LET e1 == Receive(e, l) IN
    IF IsWelcome(l)
    THEN ScEnter([e1 EXCEPT !.task["conn"].pc = "c_notify"], "conn")
    ELSE ConnClose(e1, "closing_fail")

\* connect(), lines 72-82: _receive returns the first line of the session
Welcome(l) ==
    /\ task["conn"].pc = "welcome"
    /\ Quiet
    /\ transport = "open" /\ link
    /\ SetE(WelcomeRead(E, l))

\* connect(), lines 72-77: _receive returns [] (EOF, read error, no transport)
WelcomeEOF ==
    /\ task["conn"].pc = "welcome"
    /\ Quiet
    /\ ~(transport = "open" /\ link)
    /\ SetE(ConnClose(E, "closing_fail"))

\* _close_connection, lines 422-426, as awaited by connect(): wait_closed
\* returns, then lines 76-77 / 98-99
ConnCloseEnd ==
    /\ task["conn"].pc \in {"closing_fail", "closing_exc"}
    /\ Quiet
    /\ SetE(ConnDone(Emit([E EXCEPT !.transport = "none", !.link = FALSE], FALSE),
                     "false"))

\* a user calls record(), stop() or update_clips()
UserCall(t, op) ==
    /\ task[t].pc = "idle"
    /\ SetE(Call(E, t, op))

\* _send_command, line 290 onwards: the awaited previous future is done
WaiterRun(t) ==
    /\ task[t].sc = "ready"
    /\ SetE(IF task[t].wake = "cancelled" THEN Raise(E, t, "cancel")
            ELSE ScWrite(E, t))

\* _send_command, lines 302-304 and 309-312: wait_for returns the result of
\* the future, or raises the exception set on it
OwnerRun(t) ==
    /\ task[t].sc = "resolved"
    /\ SetE(Return([E EXCEPT !.slot = None], t, task[t].res))

\* wait_for, timeout=5.0: the deadline passes and the future is cancelled
TimeoutFire(t) ==
    /\ task[t].sc = "waitreply"
    /\ fstate[t] = "pending"
    /\ Quiet
    /\ SetE([Complete(E, t, "cancelled", NoResult)
                EXCEPT !.task[t].sc = "timedout"])

\* _send_command, lines 305-308: except asyncio.TimeoutError
TimeoutReturnKeep(t) == Return(E, t, TimeoutResult)
TimeoutReturnOf(t) == Return([E EXCEPT !.slot = None], t, TimeoutResult)
TimeoutReturn(t) ==
    /\ task[t].sc = "timedout"
    /\ SetE(TimeoutReturnOf(t))

\* the task created at line 85 runs for the first time
PollStart ==
    /\ task["poll"].pc = "start"
    /\ SetE(PollLoop(E))

\* _poll_state, line 335: the 1 s are over, next turn of the loop
PollRun ==
    /\ task["poll"].pc = "sleep1"
    /\ Quiet
    /\ SetE(PollLoop(E))

\* _poll_state, lines 324-329: _close_connection returns
PollCloseEnd ==
    /\ task["poll"].pc = "closing"
    /\ Quiet
    /\ SetE(PollClosed(E))

\* _poll_state, lines 329-335: the 5 s are over
PollReconnect ==
    /\ task["poll"].pc = "sleep5"
    /\ Quiet
    /\ SetE(PollRetry(E))

\* the device or the network drops the TCP session
LinkLost ==
    /\ transport = "open" /\ link
    /\ SetE([E EXCEPT !.link = FALSE])

\* the device answers a command it received with "200 ok"
DeviceReply(f) ==
    /\ f \in fwritten /\ fstate[f] = "pending" /\ f \notin freplied
    /\ transport = "open" /\ link
    /\ SetE([E EXCEPT !.freplied = @ \cup {f}])

\* HyperDeckClient.__init__, lines 22-48
EngineNew ==
    /\ transport = "none" /\ link = FALSE
    /\ connected = FALSE /\ recording = FALSE /\ stopping = FALSE
    /\ slot = None
    /\ fstate = [f \in Tasks |-> "unused"]
    /\ fwritten = {}
    /\ freplied = {}
    /\ task = [t \in Tasks |-> RestTask(t)]
    /\ nconn = 0
    /\ csig = NoSignal
    /\ rsig = NoSignal

NextEngine ==
    \/ ConnectCall
    \/ ConnectRun
    \/ \E ok \in BOOLEAN : OpenResult(ok)
    \/ \E l \in Lines : Welcome(l)
    \/ WelcomeEOF
    \/ ConnCloseEnd
    \/ \E t \in Users, op \in UserOps : UserCall(t, op)
    \/ \E t \in Tasks : WaiterRun(t)
    \/ \E t \in Tasks : OwnerRun(t)
    \/ \E t \in Tasks : TimeoutFire(t)
    \/ \E t \in Tasks : TimeoutReturn(t)
    \/ PollStart
    \/ PollRun
    \/ PollCloseEnd
    \/ PollReconnect
    \/ LinkLost
    \/ \E f \in Tasks : DeviceReply(f)


TypeEngine ==
    /\ transport \in {"none", "open", "closing"}
    /\ slot \in Tasks \cup {None}
    /\ \A t \in Tasks : task[t].wait \in Tasks \cup {None, Lost}
    /\ \A t \in Tasks : fstate[t] \in {"unused", "pending", "done", "cancelled"}
    /\ fwritten \subseteq Tasks /\ freplied \subseteq fwritten

\* ---- the response classifier on its own ----------------------------------
\* _receive, lines 391-413, applied to one reply line while the command of a
\* user is pending on a connected engine
ClassifyLines == [code : 0..MaxCode, rec : {FALSE}]

ClassifyStart ==
    /\ transport = "open" /\ link = TRUE
    /\ connected = TRUE /\ recording \in BOOLEAN /\ stopping = FALSE
    /\ slot = "u1"
    /\ fstate = [f \in Tasks |-> IF f = "u1" THEN "pending" ELSE "unused"]
    /\ fwritten = {"u1"}
    /\ freplied = {}
    /\ \E op \in UserOps :
         task = [t \in Tasks |->
                    IF t = "u1" THEN [NewTask(op) EXCEPT !.sc = "waitreply"]
                    ELSE RestTask(t)]
    /\ nconn = 1
    /\ csig = [val |-> TRUE, seq |-> 1]
    /\ rsig = IF recording THEN [val |-> TRUE, seq |-> 1] ELSE NoSignal

\* _receive reads the line and matches it against the pending future
ReadReply ==
    /\ wire # NoLine
    /\ SetEngine(Receive(E, wire))
    /\ wire' = NoLine
    /\ UNCHANGED <<managerVars, workerVars, orchVars, linkVars, passVars>>

NextClassify ==
    \/ ReadReply
    \/ \E t \in Users : OwnerRun(t)
    \/ \E t \in Users : TimeoutFire(t)
    \/ \E t \in Users : TimeoutReturn(t)

\* ---- the welcome line on its own ------------------------------------------
\* connect() has opened the session and is about to read its first line,
\* which is any status line, text that is no status line, or missing (EOF)
WelcomeLines == ClassifyLines \cup {[code |-> Garbage, rec |-> FALSE], NoLine}

WelcomeStart ==
    /\ transport = "open" /\ link = TRUE
    /\ connected = FALSE /\ recording = FALSE /\ stopping = FALSE
    /\ slot = None
    /\ fstate = [f \in Tasks |-> "unused"]
    /\ fwritten = {}
    /\ freplied = {}
    /\ task = [t \in Tasks |->
                  IF t = "conn" THEN NewTask("welcome") ELSE RestTask(t)]
    /\ nconn = 1
    /\ csig = NoSignal
    /\ rsig = NoSignal

\* connect(), lines 72-82: _receive returns the line, or [] for none
ReadWelcome ==
    /\ task["conn"].pc = "welcome"
    /\ SetEngine(IF wire = NoLine \/ ~link THEN ConnClose(E, "closing_fail")
                 ELSE WelcomeRead(E, wire))
    /\ wire' = NoLine
    /\ UNCHANGED <<managerVars, workerVars, orchVars, linkVars, passVars>>

NextWelcome ==
    \/ ReadWelcome
    \/ ConnCloseEnd
    \/ \E t \in Tasks : WaiterRun(t)
    \/ \E t \in Tasks : TimeoutFire(t)
    \/ \E t \in Tasks : TimeoutReturn(t)
    \/ PollStart
    \/ LinkLost

\* the same, with the callers of the engine going on: a reply of each band
\* is read while a command is pending, other calls queue behind it and
\* follow it
NextReject ==
    \/ ReadReply
    \/ \E t \in Users, op \in UserOps : UserCall(t, op)
    \/ \E t \in Users : WaiterRun(t)
    \/ \E t \in Users : OwnerRun(t)
    \/ \E t \in Users : TimeoutFire(t)
    \/ \E t \in Users : TimeoutReturn(t)

\* ---- a session whose reply lines are read ---------------------------------
\* connect() has returned True (lines 85-92): the session is open, nothing is
\* pending, the polling loop is in its sleep
SessionOpen ==
    /\ transport = "open" /\ link = TRUE
    /\ connected = TRUE /\ recording = FALSE /\ stopping = FALSE
    /\ slot = None
    /\ fstate = [f \in Tasks |-> "unused"]
    /\ fwritten = {}
    /\ freplied = {}
    /\ nconn = 1
    /\ csig = [val |-> TRUE, seq |-> 1]
    /\ rsig = NoSignal
SessionStart ==
    /\ SessionOpen
    /\ task = [t \in Tasks |->
                  IF t = "poll" THEN NewTask("sleep1") ELSE RestTask(t)]

\* the device sends line l while the command it received is unanswered, and
\* _receive reads it (lines 391-413)
DeviceLine(l) ==
    /\ transport = "open" /\ link
    /\ slot # None /\ slot \in fwritten /\ fstate[slot] = "pending"
    /\ SetE(Receive(E, l))

\* record(), stop(), update_clips() and the status poll on that session,
\* _receive (lines 353-415) being run for every line the device sends
NextSession ==
    \/ \E l \in Lines : DeviceLine(l)
    \/ \E t \in Users, op \in UserOps : UserCall(t, op)
    \/ \E t \in Tasks : WaiterRun(t)
    \/ \E t \in Tasks : OwnerRun(t)
    \/ \E t \in Tasks : TimeoutFire(t)
    \/ \E t \in Tasks : TimeoutReturn(t)
    \/ PollRun

\* ---- the life of a session: polling failure, reconnection, disconnect ----
Loops == {"poll", "poll2"}
OkLine == [code |-> 200, rec |-> FALSE]
LifeLines == {l \in Lines : l.code \in {200, WelcomeCode}}

\* connect() has returned True, as in SessionStart; no other polling loop is
\* left from an earlier session
LifecycleStart ==
    /\ SessionOpen
    /\ task = [t \in Tasks |->
                  CASE t = "poll" -> NewTask("sleep1")
                    [] t = "poll2" -> NewTask("dead")
                    [] OTHER -> RestTask(t)]

\* the owner calls connect() and waits for it to return (run_until_complete
\* in the worker); until then the task is marked as the owner's
OwnerConnect ==
    /\ task["conn"].pc = "idle" /\ task["disc"].pc = "idle"
    /\ transport = "none" => nconn < MaxConnects
    /\ SetE(ConnStart([E EXCEPT !.nconn = IF transport = "none" THEN @ + 1 ELSE @,
                                !.task["conn"] = [NewTask("idle") EXCEPT
                                                     !.ret = "owner"],
                                !.task["disc"] = NewTask("idle")]))

\* the owner calls disconnect(), not while it waits for its connect()
DisconnectCall ==
    /\ task["disc"].pc = "idle"
    /\ task["conn"].ret # "owner"
    /\ SetE(Disconnect(E))

\* the cancelled polling loop gets to run
PollCancelRun(p) ==
    /\ task[p].sc = "cancel"
    /\ SetE(IF p = "poll" THEN PollCancelled(E) ELSE Swap(PollCancelled(Swap(E))))

\* disconnect(), lines 110-115: the awaited polling task has ended
DisconnectResume ==
    /\ task["disc"].pc = "d_woken"
    /\ SetE(DiscClose(E))

\* disconnect(), lines 115-118: wait_closed returns, line 426
DisconnectCloseEnd ==
    /\ task["disc"].pc = "d_closing"
    /\ Quiet
    /\ SetE(DiscDone([E EXCEPT !.transport = "none", !.link = FALSE]))

\* the steps of a polling loop _polling_task no longer refers to
OldPollRun ==
    /\ task["poll2"].pc = "sleep1"
    /\ Quiet
    /\ SetE(Swap(PollLoop(Swap(E))))
OldPollCloseEnd ==
    /\ task["poll2"].pc = "closing"
    /\ Quiet
    /\ SetE(Swap(PollClosed(Swap(E))))
OldPollReconnect ==
    /\ task["poll2"].pc = "sleep5"
    /\ Quiet
    /\ SetE(Swap(PollRetry(Swap(E))))

\* the engine after its owner's connect(): the device answers or not, the
\* link may drop, the polling loops and the connect() tasks they create
\* run, the owner may call disconnect() and connect()
NextLifecycle ==
    \/ OwnerConnect
    \/ DisconnectCall
    \/ \E p \in Loops : PollCancelRun(p)
    \/ DisconnectResume
    \/ DisconnectCloseEnd
    \/ ConnectRun
    \/ \E ok \in BOOLEAN : OpenResult(ok)
    \/ \E l \in LifeLines : Welcome(l)
    \/ WelcomeEOF
    \/ ConnCloseEnd
    \/ DeviceLine(OkLine)
    \/ \E t \in Loops \cup {"conn"} : WaiterRun(t)
    \/ \E t \in Loops \cup {"conn"} : OwnerRun(t)
    \/ \E t \in Loops \cup {"conn"} : TimeoutFire(t)
    \/ \E t \in Loops \cup {"conn"} : TimeoutReturn(t)
    \/ PollStart
    \/ PollRun
    \/ PollCloseEnd
    \/ PollReconnect
    \/ OldPollRun
    \/ OldPollCloseEnd
    \/ OldPollReconnect
    \/ LinkLost

\* the same engine left to itself: its owner calls nothing but disconnect()
NextRecover ==
    \/ DisconnectCall
    \/ \E p \in Loops : PollCancelRun(p)
    \/ DisconnectResume
    \/ DisconnectCloseEnd
    \/ ConnectRun
    \/ \E ok \in BOOLEAN : OpenResult(ok)
    \/ \E l \in LifeLines : Welcome(l)
    \/ WelcomeEOF
    \/ ConnCloseEnd
    \/ DeviceLine(OkLine)
    \/ \E t \in Loops \cup {"conn"} : WaiterRun(t)
    \/ \E t \in Loops \cup {"conn"} : OwnerRun(t)
    \/ \E t \in Loops \cup {"conn"} : TimeoutFire(t)
    \/ \E t \in Loops \cup {"conn"} : TimeoutReturn(t)
    \/ PollRun
    \/ PollCloseEnd
    \/ PollReconnect
    \/ LinkLost

\* ---- a session whose device answers every command, in order -------------
\* the lines a device answers a command with: a status code outside the
\* asynchronous band
AnswerLines == {l \in Lines : l.code # Garbage /\ ~IsAsync(l.code)}

\* the device answers the oldest command it has received, and _receive
\* (lines 391-413) reads the line
DeviceAnswer(l) ==
    /\ inbox # NotFollowed /\ inbox # <<>>
    /\ transport = "open" /\ link
    /\ SetE(Receive([E EXCEPT !.inbox = Tail(@)], l))

\* the callers on that session, between two status polls; an answer may come
\* after the caller has given up
NextCorrelate ==
    \/ \E l \in AnswerLines : DeviceAnswer(l)
    \/ \E t \in Users, op \in UserOps : UserCall(t, op)
    \/ \E t \in Users : WaiterRun(t)
    \/ \E t \in Users : OwnerRun(t)
    \/ \E t \in Users : TimeoutFire(t)
    \/ \E t \in Users : TimeoutReturn(t)

\* =========================================================================
\*  HyperDeckManager: the asyncio fleet
\* =========================================================================
\* The manager sees an engine through connect(), record() and stop().  Each
\* call is summarised by how it ends: it returns True, it returns False, or
\* an exception leaves it (a write on a lost link, which _send_command does
\* not catch).  The device table is not changed while a gather is in flight,
\* one manager operation runs at a time, and every call comes to an end.
Devs == 1..NumDev

FreshEngine == [transport |-> FALSE, connected |-> FALSE, recording |-> FALSE]

ConnectOutcomes == {"true", "false"}
CommandOutcomes == {"true", "false", "exc"}

NoFan == [op |-> "none", todo |-> {}, res |-> [d \in Devs |-> "none"], ok |-> {}]
NoRet == [op |-> "none", val |-> FALSE]

\* asyncio.gather(*tasks, return_exceptions=True) over the table
Gather(op, ok) == [op |-> op, todo |-> mdevices, res |-> [d \in Devs |-> "none"],
                   ok |-> ok]

\* gather returns when every awaitable is done
GatheredEarly(f) == f.todo = {} \/ \E d \in mdevices : f.res[d] \in {"false", "exc"}
Gathered(f) == f.todo = {}

\* all(isinstance(result, bool) and result for result in results)
AllSucceeded(f) == \A d \in mdevices : f.res[d] = "true"

\* the devices the loop over zip(self.devices.keys(), results) reports
Failed(f) == {d \in mdevices : f.res[d] \in {"false", "exc"}}

\* _on_device_recording_changed, lines 300-303, run by recording_signal
OnRecordingChanged(eng, rec) ==
    LET any_recording == \E d \in mdevices : eng[d].recording IN
    IF any_recording # rec THEN any_recording ELSE rec

\* HyperDeckClient.connect as the manager sees it
EngineConnectResult(g, out) ==
    IF g.transport THEN "true" ELSE out
EngineConnected(g, out) ==
    IF ~g.transport /\ out = "true"
    THEN [g EXCEPT !.transport = TRUE, !.connected = TRUE]
    ELSE g

\* HyperDeckClient.record / stop as the manager sees them
EngineCommandResult(g, out) ==
    IF ~g.transport THEN "false" ELSE out
EngineRecorded(g, out, rec) ==
    IF g.transport /\ out = "true" THEN [g EXCEPT !.recording = rec] ELSE g

\* ---- the manager's steps ---------------------------------------------------
ManagerOnly ==
    UNCHANGED <<engineVars, wire, workerVars, orchVars, linkVars, passVars>>

\* add_device, lines 42-61: a device already held is replaced by a new engine
AddDevice(d) ==
    /\ fan.op = "none"
    /\ mdevices' = mdevices \cup {d}
    /\ mengine' = [mengine EXCEPT ![d] = FreshEngine]
    /\ UNCHANGED <<mrecording, fan, mret, merrors>>
    /\ ManagerOnly

\* remove_device, lines 70-76
RemoveDevice(d) ==
    /\ fan.op = "none"
    /\ d \in mdevices
    /\ mdevices' = mdevices \ {d}
    /\ mengine' = [mengine EXCEPT ![d] = FreshEngine]
    /\ UNCHANGED <<mrecording, fan, mret, merrors>>
    /\ ManagerOnly

\* connect_all, lines 85-93
ConnectAll ==
    /\ fan.op = "none"
    /\ IF mdevices = {}
       THEN /\ mret' = [op |-> "connect", val |-> FALSE]
            /\ UNCHANGED <<fan, merrors>>
       ELSE /\ fan' = Gather("connect", {})
            /\ mret' = NoRet
            /\ merrors' = {}
    /\ UNCHANGED <<mdevices, mengine, mrecording>>
    /\ ManagerOnly

\* one device.connect() of the gather is done
DeviceConnect(d, out) ==
    /\ fan.op = "connect" /\ d \in fan.todo
    /\ mengine' = [mengine EXCEPT ![d] = EngineConnected(@, out)]
    /\ fan' = [fan EXCEPT !.todo = @ \ {d},
                          !.res[d] = EngineConnectResult(mengine[d], out)]
    /\ UNCHANGED <<mdevices, mrecording, mret, merrors>>
    /\ ManagerOnly

\* connect_all, lines 93-110
ConnectAllReturn ==
    /\ fan.op = "connect" /\ Gathered(fan)
    /\ mret' = [op |-> "connect", val |-> AllSucceeded(fan)]
    /\ fan' = NoFan
    /\ UNCHANGED <<mdevices, mengine, mrecording, merrors>>
    /\ ManagerOnly

\* start_recording, lines 133-148
StartRecording ==
    /\ fan.op = "none"
    /\ IF mdevices = {}
       THEN /\ mret' = [op |-> "start", val |-> FALSE]
            /\ UNCHANGED <<fan, merrors>>
       ELSE /\ fan' = Gather("start", {})
            /\ mret' = NoRet
            /\ merrors' = {}
    /\ UNCHANGED <<mdevices, mengine, mrecording>>
    /\ ManagerOnly

\* one device.record() of the gather is done
DeviceRecord(d, out) ==
    /\ fan.op = "start" /\ d \in fan.todo
    /\ LET eng == [mengine EXCEPT ![d] = EngineRecorded(@, out, TRUE)]
           res == EngineCommandResult(mengine[d], out)
       IN  /\ mengine' = eng
           /\ mrecording' = IF res = "true" THEN OnRecordingChanged(eng, mrecording)
                            ELSE mrecording
           /\ fan' = [fan EXCEPT !.todo = @ \ {d}, !.res[d] = res]
    /\ UNCHANGED <<mdevices, mret, merrors>>
    /\ ManagerOnly

\* start_recording, lines 148-173: every record() is in; on a failure the
\* errors are reported and stop_recording is entered (lines 182-187)
StartGathered ==
    /\ fan.op = "start" /\ Gathered(fan)
    /\ IF AllSucceeded(fan)
       THEN /\ mrecording' = TRUE
            /\ mret' = [op |-> "start", val |-> TRUE]
            /\ fan' = NoFan
            /\ UNCHANGED merrors
       ELSE /\ merrors' = merrors \cup {<<"start", d>> : d \in Failed(fan)}
            /\ fan' = Gather("rollback", {d \in mdevices : fan.res[d] = "true"})
            /\ UNCHANGED <<mrecording, mret>>
    /\ UNCHANGED <<mdevices, mengine>>
    /\ ManagerOnly

\* stop_recording, lines 182-187
StopRecording ==
    /\ fan.op = "none"
    /\ IF mdevices = {}
       THEN /\ mret' = [op |-> "stop", val |-> FALSE]
            /\ UNCHANGED <<fan, merrors>>
       ELSE /\ fan' = Gather("stop", {})
            /\ mret' = NoRet
            /\ merrors' = {}
    /\ UNCHANGED <<mdevices, mengine, mrecording>>
    /\ ManagerOnly

\* one device.stop() of the gather is done
DeviceStop(d, out) ==
    /\ fan.op \in {"stop", "rollback"} /\ d \in fan.todo
    /\ LET eng == [mengine EXCEPT ![d] = EngineRecorded(@, out, FALSE)]
           res == EngineCommandResult(mengine[d], out)
       IN  /\ mengine' = eng
           /\ mrecording' = IF res = "true" THEN OnRecordingChanged(eng, mrecording)
                            ELSE mrecording
           /\ fan' = [fan EXCEPT !.todo = @ \ {d}, !.res[d] = res]
    /\ UNCHANGED <<mdevices, mret, merrors>>
    /\ ManagerOnly

\* stop_recording, lines 187-210, and for a rollback start_recording, line 173
StopGathered ==
    /\ fan.op \in {"stop", "rollback"} /\ Gathered(fan)
    /\ merrors' = merrors \cup {<<"stop", d>> : d \in Failed(fan)}
    /\ mrecording' = FALSE
    /\ mret' = IF fan.op = "stop" THEN [op |-> "stop", val |-> AllSucceeded(fan)]
               ELSE [op |-> "start", val |-> FALSE]
    /\ fan' = NoFan
    /\ UNCHANGED <<mdevices, mengine>>
    /\ ManagerOnly

ManagerIdle ==
    /\ mdevices = {}
    /\ mengine = [d \in Devs |-> FreshEngine]
    /\ mrecording = FALSE
    /\ fan = NoFan
    /\ mret = NoRet
    /\ merrors = {}

NextManager ==
    \/ \E d \in Devs : AddDevice(d)
    \/ \E d \in Devs : RemoveDevice(d)
    \/ ConnectAll
    \/ \E d \in Devs, out \in ConnectOutcomes : DeviceConnect(d, out)
    \/ ConnectAllReturn
    \/ StartRecording
    \/ \E d \in Devs, out \in CommandOutcomes : DeviceRecord(d, out)
    \/ StartGathered
    \/ StopRecording
    \/ \E d \in Devs, out \in CommandOutcomes : DeviceStop(d, out)
    \/ StopGathered

\* =========================================================================
\*  HyperDeckWorker: the threaded fleet and update_devices
\* =========================================================================
\* update_devices runs on the caller's thread from its first line to its
\* last; each connect() inside it ends True or False.  run() never gets to
\* change the table: its first call on a client, check_connection, is not a
\* method of HyperDeckClient.
Ids == 1..MaxList
Hosts == {"h1", "h2"}
Ports == {DefaultPort, DefaultPort + 1}

\* one entry of the configured device list; id 0 stands for a missing 'id'
Configs == [id : Ids \cup {0}, ip : Hosts \cup {""}, port : Ports,
            enabled : BOOLEAN]
DeviceLists == UNION {[1..n -> Configs] : n \in 0..MaxList}

NoClient == [host |-> "", port |-> 0]

\* HyperDeckClient(device_id, ip), as connect_devices builds it (line 92)
NewClient(ip) == [host |-> ip, port |-> DefaultPort]

\* update_devices, line 211: device_config.get('id', i + 1)
DeviceId(cfg, i) == IF cfg.id = 0 THEN i ELSE cfg.id

\* update_devices, lines 216-222: entries that are skipped
WantedIgnoringEnabled(cfg) == cfg.ip # ""
Wanted(cfg) == cfg.enabled /\ cfg.ip # ""

\* update_devices, lines 206-229: the ids left in current_device_ids
Leftover(devs, list) ==
    {d \in Ids : devs[d] # NoClient} \
        {DeviceId(list[i], i) : i \in {j \in 1..Len(list) : Wanted(list[j])}}

\* disconnect_devices for one id, lines 118-124
DisconnectDevice(w, d) ==
    IF w.devs[d] # NoClient
    THEN [devs |-> [w.devs EXCEPT ![d] = NoClient],
          log |-> Append(w.log, [ev |-> "disconnect", id |-> d,
                                 host |-> w.devs[d].host, port |-> w.devs[d].port])]
    ELSE w

\* connect_devices for one (id, ip), lines 90-107; without the thread's loop
\* run_until_complete is called on None and the except clause reports it
ConnectDevice(w, d, ip, ok) ==
    LET client == NewClient(ip) IN
    IF wloop
    THEN [devs |-> IF ok THEN [w.devs EXCEPT ![d] = client] ELSE w.devs,
          log |-> Append(w.log, [ev |-> "connect", id |-> d,
                                 host |-> client.host, port |-> client.port])]
    ELSE w

RECURSIVE DisconnectAll(_, _)
\* disconnect_devices, lines 116-129
DisconnectAll(w, ids) ==
    IF ids = {} THEN w
    ELSE LET d == CHOOSE x \in ids : \A y \in ids : x <= y IN
         DisconnectAll(DisconnectDevice(w, d), ids \ {d})

\* update_devices, lines 235-246, for one entry of new_devices
Reconcile(w, d, ip, port, ok) ==
    IF w.devs[d] # NoClient
    THEN IF w.devs[d].host # ip \/ w.devs[d].port # port
         THEN ConnectDevice(DisconnectDevice(w, d), d, ip, ok)
         ELSE w
    ELSE ConnectDevice(w, d, ip, ok)

RECURSIVE ReconcileFrom(_, _, _, _)
\* update_devices, lines 235-246: the loop over new_devices
ReconcileFrom(w, list, oks, i) ==
    IF i > Len(list) THEN w
    ELSE ReconcileFrom(
           IF Wanted(list[i])
           THEN Reconcile(w, DeviceId(list[i], i), list[i].ip, list[i].port, oks[i])
           ELSE w,
           list, oks, i + 1)

\* the clients with connected = True after update_devices: those whose
\* connect() has just returned True (line 90 of the client) and those that
\* were connected and were not touched
ConnectedAfter(conn, w) ==
    {d \in Ids : /\ w.devs[d] # NoClient
                 /\ \/ \E k \in 1..Len(w.log) :
                          w.log[k].ev = "connect" /\ w.log[k].id = d
                    \/ /\ d \in conn
                       /\ \A k \in 1..Len(w.log) : w.log[k].id # d}

\* has_devices, line 194
HasDevices(devs) == {d \in Ids : devs[d] # NoClient} # {}

\* ---- the worker's steps ------------------------------------------------
WorkerOnly ==
    UNCHANGED <<engineVars, wire, managerVars, orchVars, linkVars, passVars>>

\* run, lines 35-36: the thread creates its event loop
ThreadStart ==
    /\ ~wloop
    /\ wloop' = TRUE
    /\ UNCHANGED <<wdevices, wcalled, wdesired, wlog, wconnected>>
    /\ WorkerOnly

\* update_devices(device_list), lines 196-246
UpdateDevices(list, oks) ==
    /\ ~wcalled
    /\ LET w0 == [devs |-> wdevices, log |-> <<>>]
           w1 == DisconnectAll(w0, Leftover(wdevices, list))
           w2 == ReconcileFrom(w1, list, oks, 1)
       IN  /\ wdevices' = w2.devs
           /\ wlog' = w2.log
           /\ wconnected' = ConnectedAfter(wconnected, w2)
    /\ wdesired' = list
    /\ wcalled' = TRUE
    /\ UNCHANGED wloop
    /\ WorkerOnly

\* the caller goes on; the record of the call is dropped
UpdateDone ==
    /\ wcalled
    /\ wcalled' = FALSE
    /\ wdesired' = <<>>
    /\ wlog' = <<>>
    /\ UNCHANGED <<wloop, wdevices, wconnected>>
    /\ WorkerOnly

\* _poll_state of a held client, lines 320-326 of the client: while
\* update_devices ran the worker's loop (run_until_complete, lines 95 and
\* 121) the status query of the client raised, and its connected is False
PollFailure(d) ==
    /\ wcalled /\ wlog # <<>>
    /\ d \in wconnected
    /\ \A k \in 1..Len(wlog) : wlog[k].id # d
    /\ wconnected' = wconnected \ {d}
    /\ UNCHANGED <<wloop, wdevices, wcalled, wdesired, wlog>>
    /\ WorkerOnly

\* update_devices is called once more with the list of the call before
\* (the settings are applied again), lines 196-246
UpdateAgain(oks) ==
    /\ wcalled
    /\ LET w0 == [devs |-> wdevices, log |-> <<>>]
           w1 == DisconnectAll(w0, Leftover(wdevices, wdesired))
           w2 == ReconcileFrom(w1, wdesired, oks, 1)
       IN  /\ wdevices' = w2.devs
           /\ wlog' = w2.log
           /\ wconnected' = ConnectedAfter(wconnected, w2)
    /\ UNCHANGED <<wloop, wcalled, wdesired>>
    /\ WorkerOnly

WorkerIdle ==
    /\ wloop = FALSE
    /\ wdevices = [d \in Ids |-> NoClient]
    /\ wcalled = FALSE
    /\ wdesired = <<>>
    /\ wlog = <<>>
    /\ wconnected = {}

NextWorker ==
    \/ ThreadStart
    \/ \E list \in DeviceLists :
         \E oks \in [1..Len(list) -> BOOLEAN] : UpdateDevices(list, oks)
    \/ UpdateDone
    \/ \E d \in Ids : PollFailure(d)

\* update_devices called again with the same list
NextReapply ==
    \/ ThreadStart
    \/ \E list \in DeviceLists :
         \E oks \in [1..Len(list) -> BOOLEAN] : UpdateDevices(list, oks)
    \/ \E oks \in [1..Len(wdesired) -> BOOLEAN] : UpdateAgain(oks)
    \/ UpdateDone

\* =========================================================================
\*  ShogunOSCApp: start_all_recordings / stop_all_recordings
\* =========================================================================
\* The main window runs on the GUI thread.  ShogunWorker.start_recording and
\* stop_recording hand startcapture() / stopcapture() to the loop of the
\* Shogun thread with run_coroutine_threadsafe and return at once; the
\* coroutine runs when that thread next runs its loop.  HyperDeckWorker's
\* start_recording and stop_recording run on the GUI thread from their first
\* line to their last.  olog keeps the order of it all.
Ev(name, d) == [ev |-> name, id |-> d]

\* HyperDeckWorker.start_recording / stop_recording, lines 140-157 and
\* 168-185, over the ids held: for each one the client's start_recording()
\* (stop_recording()) is looked up; HyperDeckClient has no such method
\* (its methods are record and stop), so the AttributeError is caught at
\* line 154 (182) and error_signal is emitted; nothing is written to a
\* recorder
RECURSIVE FleetCall(_, _)
FleetCall(ids, kind) ==
    IF ids = {} THEN <<>>
    ELSE LET d == CHOOSE x \in ids : \A y \in ids : x <= y IN
         <<Ev(kind, d), Ev("device_error", d)>> \o FleetCall(ids \ {d}, kind)

\* ShogunWorker.start_recording / stop_recording, lines 563-599
ShogunScheduleDropped(q, c, coro) == q
ShogunSchedule(q, c, coro) == IF c THEN Append(q, coro) ELSE q

\* start_all_recordings, lines 361-383, past the check of the link
StartAllProceeds(c, en, devs) ==
    (IF en /\ ~HasDevices(devs) THEN <<Ev("warning_no_devices", 0)>> ELSE <<>>)
    \o <<Ev(IF c THEN "capture_start_queued" ELSE "capture_error", 0)>>
    \o (IF en THEN FleetCall({d \in Ids : devs[d] # NoClient}, "record_attempt")
        ELSE <<>>)
    \o <<Ev("started", 0)>>

\* start_all_recordings, lines 353-388: what it does, in order
StartAllUnchecked(c, en, devs) == StartAllProceeds(c, en, devs)
StartAllEvents(c, en, devs) ==
    IF ~c THEN <<Ev("error_not_connected", 0)>>
    ELSE StartAllProceeds(c, en, devs)

\* stop_all_recordings, lines 392-405: what it does, in order
StopAllEvents(c, en, devs) ==
    (IF c THEN <<Ev("capture_stop_queued", 0)>> ELSE <<>>)
    \o (IF en THEN FleetCall({d \in Ids : devs[d] # NoClient}, "stop_attempt")
        ELSE <<>>)
    \o <<Ev("stopped", 0)>>

\* ---- the steps ------------------------------------------------------------
OrchOnly ==
    UNCHANGED <<engineVars, wire, managerVars, workerVars, linkVars, passVars>>

\* start_all_recordings (the dashboard's button, or /RecordStartAll)
StartAll ==
    /\ ocalls < MaxOps
    /\ ocalls' = ocalls + 1
    /\ LET evs == StartAllEvents(sconnected, hdenabled, wdevices) IN
       /\ olog' = olog \o <<Ev("start_all", 0)>> \o evs
       /\ squeue' = IF \E k \in 1..Len(evs) :
                          evs[k].ev \in {"capture_start_queued", "capture_error"}
                    THEN ShogunSchedule(squeue, sconnected, "start")
                    ELSE squeue
    /\ UNCHANGED <<sconnected, scapturing, hdenabled>>
    /\ OrchOnly

\* stop_all_recordings (the dashboard's button, or /RecordStopAll)
StopAll ==
    /\ ocalls < MaxOps
    /\ ocalls' = ocalls + 1
    /\ olog' = olog \o <<Ev("stop_all", 0)>>
                    \o StopAllEvents(sconnected, hdenabled, wdevices)
    /\ squeue' = ShogunSchedule(squeue, sconnected, "stop")
    /\ UNCHANGED <<sconnected, scapturing, hdenabled>>
    /\ OrchOnly

\* ShogunWorker.run, lines 48-110: the monitor finds Shogun Live, or loses it
ShogunMonitor(c) ==
    /\ sconnected # c
    /\ sconnected' = c
    /\ UNCHANGED <<squeue, scapturing, hdenabled, ocalls, olog>>
    /\ OrchOnly

\* startcapture, lines 355-406, run by the loop of the Shogun thread;
\* reach: ensure_connection succeeds; ok: start_capture reports success
StartCapture(reach, ok) ==
    /\ squeue # <<>> /\ Head(squeue) = "start"
    /\ squeue' = Tail(squeue)
    /\ IF ~reach THEN UNCHANGED <<scapturing, olog>>
       ELSE IF scapturing
       THEN /\ olog' = Append(olog, Ev("capture_already", 0))
            /\ UNCHANGED scapturing
       ELSE /\ olog' = olog \o <<Ev("start_capture", 0),
                                 Ev(IF ok THEN "capture_confirmed"
                                          ELSE "capture_failed", 0)>>
            /\ scapturing' = ok
    /\ UNCHANGED <<sconnected, hdenabled, ocalls>>
    /\ OrchOnly

\* stopcapture, lines 451-485, run by the loop of the Shogun thread
StopCapture(reach, ok) ==
    /\ squeue # <<>> /\ Head(squeue) = "stop"
    /\ squeue' = Tail(squeue)
    /\ IF ~reach \/ ~scapturing THEN UNCHANGED <<scapturing, olog>>
       ELSE /\ olog' = olog \o <<Ev("stop_capture", 0),
                                 Ev(IF ok THEN "capture_stopped"
                                          ELSE "capture_failed", 0)>>
            /\ scapturing' = ~ok
    /\ UNCHANGED <<sconnected, hdenabled, ocalls>>
    /\ OrchOnly

\* ShogunOSCApp.init_components, lines 87-104, with HYPERDECK_ENABLED = en
OrchNew(en) ==
    /\ sconnected = FALSE
    /\ squeue = <<>>
    /\ scapturing = FALSE
    /\ hdenabled = en
    /\ ocalls = 0
    /\ olog = <<>>

\* config.py, line 127: the recorders are enabled unless the settings say no
OrchIdle == OrchNew(TRUE)

\* the device tables an update_devices can leave HyperDeckWorker with
OrchTables == [Ids -> {NoClient} \cup {NewClient(h) : h \in Hosts}]

NextOrch ==
    \/ StartAll
    \/ StopAll
    \/ \E c \in BOOLEAN : ShogunMonitor(c)
    \/ \E reach \in BOOLEAN, ok \in BOOLEAN : StartCapture(reach, ok)
    \/ \E reach \in BOOLEAN, ok \in BOOLEAN : StopCapture(reach, ok)

\* =========================================================================
\*  ShogunWorker: the link to Shogun Live
\* =========================================================================
\* run() (lines 44-131) is the loop of the Shogun thread: a probe of the
\* Shogun Live process, then a check of the API connection, each when its
\* interval is over.  startcapture() and stopcapture() run on the loop of
\* that thread (or of a thread of the status panel) from their first line
\* to their last.  Shogun Live is a process with a pid, a capture name and
\* a capture that is started or not.
Pids == 1..MaxPids
Names == {"take_a", "take_b"}
Outcomes == {"ok", "fail", "raise"}

RECURSIVE Pow(_, _)
Pow(b, k) == IF k = 0 THEN 1 ELSE b * Pow(b, k - 1)

\* delays are counted in units of 2^-(MaxReconnectAttempts-1) s: in this
\* unit BaseReconnectDelay * 1.5 ** (attempt - 1) is a whole number for
\* every attempt the cycle can make, as it is an exact float in the code
DelayUnit == Pow(2, MaxReconnectAttempts - 1)

\* the text of a bool carried by a signal
B(v) == IF v THEN "true" ELSE "false"

\* pyqtSignal.emit
Sig(name, v) == [sig |-> name, val |-> v]

\* the link's state as one record; emit and trace collect what one step
\* emits and which calls it makes, ret is what the last call returned
L == [connected |-> sconnected, pid |-> lpid, alive |-> lalive,
      client |-> lclient, name |-> lname, rec |-> lrec, running |-> lrunning,
      capturing |-> scapturing, shname |-> shname, pint |-> lpint,
      emit |-> <<>>, trace |-> <<>>, ret |-> FALSE]

LinkEmit(l, name, v) == [l EXCEPT !.emit = Append(@, Sig(name, v))]
Did(l, what) == [l EXCEPT !.trace = Append(@, what)]
Ret(l, r) == [l EXCEPT !.ret = r]

\* check_shogun_process, lines 187-202, with the pid psutil reports (0: none)
CheckShogunProcess(l, pid) ==
    IF pid # 0
    THEN IF l.pid # 0 /\ l.pid # pid
         THEN [l EXCEPT !.pid = pid, !.connected = FALSE, !.alive = "up"]
         ELSE [l EXCEPT !.pid = pid, !.alive = "up"]
    ELSE [l EXCEPT !.alive = "down"]

\* run, line 71: min(5.0, self._process_check_interval * 1.5)
ProbeBackoff(p) ==
    LET n == (p * 3) \div 2
        cap == MaxProcessCheckInterval * DelayUnit
    IN IF n < cap THEN n ELSE cap

\* run, lines 59-74: the process probe and what follows from it
ProcessCheck(l, pid) ==
    LET l1 == CheckShogunProcess(l, pid) IN
    IF l1.alive = "down" /\ l1.connected
    THEN LinkEmit(LinkEmit(LinkEmit([l1 EXCEPT !.connected = FALSE,
                                               !.pint = ProbeBackoff(@)],
                                    "connection", B(FALSE)),
                           "recording", B(FALSE)),
                  "take_name", "no connection")
    ELSE IF l1.alive = "up" /\ ~l1.connected
    THEN [l1 EXCEPT !.pint = ProcessCheckInterval * DelayUnit]
    ELSE l1

\* check_shogun, lines 331-350: Shogun Live's capture state is Started
NeverCapturing(l) == FALSE
CheckShogun(l) == l.capturing

\* connect_shogun, lines 214-239; api: the state query is answered
ConnectShogun(l, api) ==
    LET l1 == [l EXCEPT !.client = TRUE] IN
    IF api THEN Ret([l1 EXCEPT !.name = l.shname], TRUE) ELSE Ret(l1, FALSE)

\* reconnect_shogun, lines 286-322, as its caller sees it: ok if one of its
\* attempts connects
ReconnectShogun(l, ok) ==
    LET l1 == Did(l, "reconnect") IN
    IF ~l1.running THEN Ret(l1, FALSE)
    ELSE IF ok
    THEN LET l2 == ConnectShogun(l1, TRUE) IN
         Ret(LinkEmit(l2, "recording", B(CheckShogun(l2))), TRUE)
    ELSE ConnectShogun(l1, FALSE)

\* ensure_connection, lines 266-277; q: the state query is answered (it
\* raises otherwise), rcn: the reconnect it then runs succeeds
EnsureConnection(l, q, rcn) ==
    IF ~l.client THEN ConnectShogun(l, q)
    ELSE IF q THEN Ret(l, TRUE)
    ELSE ReconnectShogun(l, rcn)

\* what the controller does with start_capture() / stop_capture(0)
CaptureInputs == [q : BOOLEAN, rcn : BOOLEAN, call : Outcomes,
                  rcn2 : BOOLEAN, retry : Outcomes]

\* startcapture, lines 376-403 and 411-426: start_capture() and its result
StartCall(l, out) ==
    LET l1 == Did(l, "start_capture") IN
    IF out = "ok"
    THEN Ret(LinkEmit([l1 EXCEPT !.capturing = TRUE], "take_name", "take"), TRUE)
    ELSE IF out = "fail"
    THEN Ret(LinkEmit(l1, "capture_error", "start failed"), FALSE)
    ELSE Ret(l1, FALSE)

\* startcapture, lines 362-430
Startcapture(l, in) ==
    LET l1 == EnsureConnection(l, in.q, in.rcn) IN
    IF ~l1.ret THEN l1
    ELSE IF CheckShogun(l1)
    THEN Ret(LinkEmit(l1, "take_name", "take"), TRUE)
    ELSE LET l2 == StartCall(l1, in.call) IN
         IF in.call # "raise" THEN l2
         ELSE LET l3 == ReconnectShogun(
                            LinkEmit(l2, "capture_error", "start raised"),
                            in.rcn2) IN
              IF ~l3.ret THEN l3
              ELSE LET l4 == StartCall(l3, in.retry) IN
                   IF in.retry # "raise" THEN l4
                   ELSE LinkEmit(l4, "capture_error", "start raised")

\* stopcapture, lines 471-484 and 490-503: stop_capture(0) and its result
StopCall(l, out) ==
    LET l1 == Did(l, "stop_capture") IN
    IF out = "ok"
    THEN Ret(LinkEmit([l1 EXCEPT !.capturing = FALSE], "take_name", "none"), TRUE)
    ELSE IF out = "fail"
    THEN Ret(LinkEmit(l1, "capture_error", "stop failed"), FALSE)
    ELSE Ret(l1, FALSE)

\* stopcapture, lines 458-507
Stopcapture(l, in) ==
    LET l1 == EnsureConnection(l, in.q, in.rcn) IN
    IF ~l1.ret THEN l1
    ELSE IF ~CheckShogun(l1)
    THEN Ret(LinkEmit(l1, "take_name", "none"), TRUE)
    ELSE LET l2 == StopCall(l1, in.call) IN
         IF in.call # "raise" THEN l2
         ELSE LET l3 == ReconnectShogun(l2, in.rcn2) IN
              IF ~l3.ret THEN l3
              ELSE LET l4 == StopCall(l3, in.retry) IN
                   IF in.retry # "raise" THEN l4
                   ELSE LinkEmit(l4, "capture_error", "stop raised")

\* _check_capture_name_change, line 151
NameChangedAlways(l) == TRUE
NameChanged(l) == l.shname # l.name

\* _check_capture_name_change, lines 135-159; nm: capture_name() answers
CheckCaptureNameChange(l, nm) ==
    IF l.client /\ nm /\ NameChanged(l)
    THEN LinkEmit([l EXCEPT !.name = l.shname], "capture_name_changed", l.shname)
    ELSE l

\* run, lines 98-105: the recording state, edge-triggered, and the take name
UpdateRecording(l) ==
    LET rec == CheckShogun(l)
        l1 == IF rec # l.rec
              THEN LinkEmit([l EXCEPT !.rec = rec], "recording", B(rec)) ELSE l
    IN LinkEmit(l1, "take_name", "take")

\* run, lines 77-116, without the connect_shogun of lines 82-87
ConnectionCheckNoConnect(l, q, rcn, nm) ==
    LET l1 ==
          IF l.alive # "up" \/ ~l.connected THEN l
          ELSE LET e == EnsureConnection(l, q, rcn) IN
               IF ~e.ret
               THEN LinkEmit([e EXCEPT !.connected = FALSE], "connection", B(FALSE))
               ELSE CheckCaptureNameChange(UpdateRecording(e), nm)
    IN LinkEmit(l1, "status", B(l1.connected))

\* run, lines 77-116: the check of the connection and of the status
ConnectionCheck(l, q, rcn, nm) ==
    LET l1 ==
          IF l.alive # "up" THEN l
          ELSE IF ~l.connected
          THEN LET c == ConnectShogun(l, q) IN
               LinkEmit([c EXCEPT !.connected = c.ret], "connection", B(c.ret))
          ELSE LET e == EnsureConnection(l, q, rcn) IN
               IF ~e.ret
               THEN LinkEmit([e EXCEPT !.connected = FALSE], "connection", B(FALSE))
               ELSE CheckCaptureNameChange(UpdateRecording(e), nm)
    IN LinkEmit(l1, "status", B(l1.connected))

\* ---- reconnect_shogun, step by step -----------------------------------------
\* line 312: min(base_delay * (1.5 ** (attempt - 1)), MAX_RECONNECT_DELAY)
ReconnectDelayUncapped(attempt) ==
    BaseReconnectDelay * Pow(3, attempt - 1)
        * Pow(2, MaxReconnectAttempts - attempt)
ReconnectDelay(attempt) ==
    LET d == BaseReconnectDelay * Pow(3, attempt - 1)
                 * Pow(2, MaxReconnectAttempts - attempt)
        cap == MaxReconnectDelay * DelayUnit
    IN IF d < cap THEN d ELSE cap

\* line 316: range(int(delay * 10))
SleepTicks(delay) == (delay * TicksPerSecond) \div DelayUnit

\* pc: where the coroutine is; attempt: the attempts that have failed;
\* delay: the delay computed after the last of them; ticks: the 0.1 s sleeps
\* of that delay still to go; ret: what the cycle returned
NoCycle == [pc |-> "idle", attempt |-> 0, delay |-> 0, ticks |-> 0,
            ret |-> FALSE]

\* line 304: the head of the while loop, and lines 321-322 after it
CycleHead(r, run) ==
    IF r.attempt < MaxReconnectAttempts /\ run THEN [r EXCEPT !.pc = "connect"]
    ELSE [r EXCEPT !.pc = "done", !.ret = FALSE]

\* line 317: if not self.running
TickNeverAborts(run) == FALSE
TickAborts(run) == ~run

\* lines 316-319: the head of the for loop with r.ticks sleeps to go
SleepHead(r, run) ==
    IF r.ticks = 0 THEN CycleHead(r, run)
    ELSE IF TickAborts(run) THEN [r EXCEPT !.pc = "done", !.ret = FALSE]
    ELSE [r EXCEPT !.pc = "sleep"]

\* lines 310-316: an attempt has failed
AttemptFailed(r, run) ==
    LET n == r.attempt + 1
        d == ReconnectDelay(n)
    IN SleepHead([r EXCEPT !.attempt = n, !.delay = d, !.ticks = SleepTicks(d)],
                 run)

\* ---- the link's steps -----------------------------------------------------
NoOp == [op |-> "none", ens |-> FALSE, was |-> FALSE, ret |-> FALSE,
         trace |-> <<>>]

LinkOnly ==
    UNCHANGED <<engineVars, wire, managerVars, workerVars, passVars,
                squeue, hdenabled, ocalls, olog>>

RECURSIVE LastSaid(_, _)
\* the value of the last recording_signal emission among emit, or said
LastSaid(emit, said) ==
    IF emit = <<>> THEN said
    ELSE IF emit[Len(emit)].sig = "recording" THEN emit[Len(emit)].val
    ELSE LastSaid(SubSeq(emit, 1, Len(emit) - 1), said)

\* the step ends with the link in state l
SetLink(l) ==
    /\ sconnected' = l.connected /\ lpid' = l.pid /\ lalive' = l.alive
    /\ lclient' = l.client /\ lname' = l.name /\ lrec' = l.rec
    /\ lpint' = l.pint
    /\ scapturing' = l.capturing /\ shname' = l.shname
    /\ lemit' = l.emit
    /\ lsaid' = LastSaid(l.emit, lsaid)
    /\ UNCHANGED <<lrunning, shpid, shapi>>
    /\ LinkOnly

\* run, lines 46-51: the thread starts and connects for the first time
LinkStart(api) ==
    /\ ~lloop
    /\ api => shpid # 0
    /\ lloop' = TRUE
    /\ LET c == ConnectShogun(L, api) IN
       SetLink(LinkEmit([c EXCEPT !.connected = c.ret], "connection", B(c.ret)))
    /\ lop' = NoOp
    /\ UNCHANGED rc

\* run, lines 59-74: the process probe is due
ProcessProbe ==
    /\ lloop /\ lrunning
    /\ SetLink(ProcessCheck(L, shpid))
    /\ lop' = NoOp
    /\ UNCHANGED <<lloop, rc>>

\* run, lines 77-116: the connection check is due
ConnectionProbe(q, rcn, nm) ==
    /\ lloop /\ lrunning
    /\ lalive # "unbound"
    /\ (q \/ rcn) => shpid # 0
    /\ SetLink(ConnectionCheck(L, q, rcn, nm))
    /\ lop' = NoOp
    /\ UNCHANGED <<lloop, rc>>

\* Shogun Live answers only while its process runs
Answers(in) == (in.q \/ in.rcn \/ in.rcn2) => shpid # 0

\* startcapture() is run
RunStartcapture(in) ==
    /\ lloop
    /\ Answers(in)
    /\ LET l == Startcapture(L, in) IN
       /\ SetLink(l)
       /\ lop' = [op |-> "start", ens |-> EnsureConnection(L, in.q, in.rcn).ret,
                  was |-> scapturing, ret |-> l.ret, trace |-> l.trace]
    /\ UNCHANGED <<lloop, rc>>

\* stopcapture() is run
RunStopcapture(in) ==
    /\ lloop
    /\ Answers(in)
    /\ LET l == Stopcapture(L, in) IN
       /\ SetLink(l)
       /\ lop' = [op |-> "stop", ens |-> EnsureConnection(L, in.q, in.rcn).ret,
                  was |-> scapturing, ret |-> l.ret, trace |-> l.trace]
    /\ UNCHANGED <<lloop, rc>>

\* set_capture_name(name), lines 519-548; ok: Shogun Live accepts the name
SetCaptureName(n, ok) ==
    /\ lloop /\ lclient
    /\ ok => shpid # 0
    /\ SetLink(IF ok THEN [L EXCEPT !.shname = n, !.name = n] ELSE L)
    /\ lop' = NoOp
    /\ UNCHANGED <<lloop, rc>>

\* Shogun Live is closed, started or restarted: another pid, or none
ShogunRestart(pid) ==
    /\ pid # shpid
    /\ shpid' = pid
    /\ scapturing' = FALSE
    /\ lemit' = <<>> /\ lop' = NoOp
    /\ UNCHANGED <<sconnected, lloop, lrunning, lpid, lalive, lclient, lname,
                   lrec, lpint, lsaid, rc, shname, shapi>>
    /\ LinkOnly

\* the operator renames the capture in Shogun Live
ShogunRename(n) ==
    /\ shpid # 0 /\ n # shname
    /\ shname' = n
    /\ lemit' = <<>> /\ lop' = NoOp
    /\ UNCHANGED <<sconnected, scapturing, lloop, lrunning, lpid, lalive,
                   lclient, lname, lrec, lpint, lsaid, rc, shpid, shapi>>
    /\ LinkOnly

\* ShogunWorker.__init__, lines 26-42, and Shogun Live not running
LinkIdle ==
    /\ lloop = FALSE /\ lrunning = TRUE
    /\ lpid = 0 /\ lalive = "unbound"
    /\ lclient = FALSE /\ lname = "" /\ lrec = FALSE
    /\ lpint = ProcessCheckInterval * DelayUnit /\ lsaid = "none"
    /\ lemit = <<>> /\ lop = NoOp
    /\ rc = NoCycle
    /\ shpid = 0 /\ shname = "take_a" /\ shapi = FALSE

NextLink ==
    \/ \E api \in BOOLEAN : LinkStart(api)
    \/ ProcessProbe
    \/ \E q \in BOOLEAN, rcn \in BOOLEAN, nm \in BOOLEAN : ConnectionProbe(q, rcn, nm)
    \/ \E in \in CaptureInputs : RunStartcapture(in)
    \/ \E in \in CaptureInputs : RunStopcapture(in)
    \/ \E n \in Names, ok \in BOOLEAN : SetCaptureName(n, ok)
    \/ \E pid \in Pids \cup {0} : ShogunRestart(pid)
    \/ \E n \in Names : ShogunRename(n)

\* ---- the steps of a reconnect cycle ---------------------------------------
SetCycle(r, l) ==
    /\ rc' = r
    /\ SetLink(l)
    /\ lop' = NoOp
    /\ UNCHANGED lloop

\* reconnect_shogun is called (by ensure_connection, by startcapture or
\* stopcapture, or by the status panel's button): lines 286-304
ReconnectBegin ==
    /\ rc.pc = "idle"
    /\ SetCycle(CycleHead(NoCycle, lrunning), L)

\* lines 305-316: connect_shogun returns
ReconnectAttempt(api) ==
    /\ rc.pc = "connect"
    /\ api => shpid # 0
    /\ LET c == ConnectShogun(L, api) IN
       IF api
       THEN SetCycle([rc EXCEPT !.pc = "done", !.ret = TRUE],
                     LinkEmit(c, "recording", B(CheckShogun(c))))
       ELSE SetCycle(AttemptFailed(rc, lrunning), c)

\* line 319: one asyncio.sleep(0.1) is over
ReconnectTick ==
    /\ rc.pc = "sleep"
    /\ SetCycle(SleepHead([rc EXCEPT !.ticks = @ - 1], lrunning), L)

\* the caller of reconnect_shogun goes on
ReconnectReturn ==
    /\ rc.pc = "done"
    /\ SetCycle(NoCycle, L)

\* ShogunWorker.stop, lines 550-561
LinkStop ==
    /\ lrunning
    /\ lrunning' = FALSE
    /\ lemit' = <<>> /\ lop' = NoOp
    /\ UNCHANGED <<sconnected, scapturing, lloop, lpid, lalive, lclient, lname,
                   lrec, lpint, lsaid, rc, shpid, shname, shapi>>
    /\ LinkOnly

NextReconnect ==
    \/ ReconnectBegin
    \/ \E api \in BOOLEAN : ReconnectAttempt(api)
    \/ ReconnectTick
    \/ ReconnectReturn
    \/ LinkStop
    \/ \E pid \in Pids \cup {0} : ShogunRestart(pid)

\* ---- run() and the reconnect cycle it waits for ---------------------------
\* run() calls ensure_connection() with run_until_complete (line 90): while a
\* reconnect cycle is in progress the loop of run() makes no probe and no
\* check.  Here Shogun Live answers a query when its process runs and its
\* API is up.
Answering == shapi /\ shpid # 0

\* run, lines 91-116, with the result of ensure_connection()
AfterEnsure(l, ok, nm) ==
    LET l1 == IF ~ok
              THEN LinkEmit([l EXCEPT !.connected = FALSE], "connection", B(FALSE))
              ELSE CheckCaptureNameChange(UpdateRecording(l), nm)
    IN LinkEmit(l1, "status", B(l1.connected))

\* run, lines 59-74, between two cycles
MonitorProbe ==
    /\ rc.pc = "idle"
    /\ ProcessProbe

\* run, lines 77-90: the connection check is due; when the query of
\* ensure_connection raises (line 275), reconnect_shogun begins
MonitorCheck ==
    /\ lloop /\ lrunning
    /\ lalive # "unbound"
    /\ rc.pc = "idle"
    /\ IF lalive = "up" /\ sconnected /\ lclient /\ ~Answering
       THEN SetCycle(CycleHead(NoCycle, lrunning), L)
       ELSE /\ SetLink(ConnectionCheck(L, Answering, FALSE, Answering))
            /\ lop' = NoOp
            /\ UNCHANGED <<lloop, rc>>

\* run, lines 90-116: reconnect_shogun has returned
MonitorResume ==
    /\ rc.pc = "done"
    /\ SetCycle(NoCycle, AfterEnsure(L, rc.ret, Answering))

\* the API of Shogun Live stops or starts answering
ApiChange ==
    /\ shapi' = ~shapi
    /\ lemit' = <<>> /\ lop' = NoOp
    /\ UNCHANGED <<sconnected, scapturing, lloop, lrunning, lpid, lalive,
                   lclient, lname, lrec, lpint, lsaid, rc, shpid, shname>>
    /\ LinkOnly

NextMonitor ==
    \/ LinkStart(Answering)
    \/ MonitorProbe
    \/ MonitorCheck
    \/ ReconnectAttempt(Answering)
    \/ ReconnectTick
    \/ MonitorResume
    \/ LinkStop
    \/ ApiChange
    \/ \E pid \in Pids \cup {0} : ShogunRestart(pid)

\* =========================================================================
\*  HyperDeckWorker.run: the monitoring pass
\* =========================================================================
\* run() is the loop of the worker's thread; update_devices is called on
\* the GUI thread (main_window.py, line 531) and runs there.  Nothing
\* orders the two: a call can run between any two steps of a pass.
NoPass == [active |-> FALSE, left |-> {}]

PassOnly ==
    UNCHANGED <<engineVars, wire, managerVars, workerVars, orchVars, linkVars>>

\* run, lines 44-48: a pass is due; it walks a copy of the device table
PassBegin ==
    /\ wloop /\ ~wpass.active
    /\ wpass' = [active |-> TRUE, left |-> {d \in Ids : wdevices[d] # NoClient}]
    /\ UNCHANGED werrs
    /\ PassOnly

\* run, lines 49-73, for one client of the copy: check_connection is not a
\* method of HyperDeckClient, the AttributeError is caught at line 66
PassCheck ==
    /\ wpass.active /\ wpass.left # {}
    /\ LET d == CHOOSE x \in wpass.left : \A y \in wpass.left : x <= y IN
       wpass' = [wpass EXCEPT !.left = @ \ {d}]
    /\ werrs' = IF werrs < MaxErrorCount THEN werrs + 1 ELSE werrs
    /\ PassOnly

\* run, line 76: the pass is over
PassEnd ==
    /\ wpass.active /\ wpass.left = {}
    /\ wpass' = NoPass
    /\ UNCHANGED werrs
    /\ PassOnly

\* HyperDeckWorker.__init__, lines 28-31
PassIdle == wpass = NoPass /\ werrs = 0

\* the device lists of a settings dialog with every recorder enabled
ThreadLists ==
    UNION {[1..n -> [id : Ids, ip : Hosts, port : {DefaultPort},
                     enabled : {TRUE}]] : n \in 0..MaxList}

NextThreads ==
    \/ ThreadStart
    \/ \E list \in ThreadLists :
         \E oks \in [1..Len(list) -> BOOLEAN] : UpdateDevices(list, oks)
    \/ UpdateDone
    \/ PassBegin
    \/ PassCheck
    \/ PassEnd

\* =========================================================================
\*  Specifications
\* =========================================================================
\* everything as constructed
Init ==
    /\ EngineNew /\ wire = NoLine /\ inbox = NotFollowed
    /\ ManagerIdle /\ WorkerIdle /\ OrchIdle
    /\ LinkIdle /\ PassIdle

\* one engine with its callers and its device
SpecEngine == Init /\ [][NextEngine]_vars

\* the classifier applied to every reply line
InitClassify ==
    ClassifyStart /\ wire \in ClassifyLines /\ inbox = NotFollowed
    /\ ManagerIdle /\ WorkerIdle /\ OrchIdle
    /\ LinkIdle /\ PassIdle
SpecClassify == InitClassify /\ [][NextClassify]_vars

\* connect() on every first line of a session
InitWelcome ==
    WelcomeStart /\ wire \in WelcomeLines /\ inbox = NotFollowed
    /\ ManagerIdle /\ WorkerIdle /\ OrchIdle
    /\ LinkIdle /\ PassIdle
SpecWelcome == InitWelcome /\ [][NextWelcome]_vars

\* a reply of each band, and the calls that follow it
InitReject ==
    ClassifyStart /\ wire \in Lines /\ inbox = NotFollowed
    /\ ManagerIdle /\ WorkerIdle /\ OrchIdle
    /\ LinkIdle /\ PassIdle
SpecReject == InitReject /\ [][NextReject]_vars

\* an open session: commands, status polls and the replies to them
InitSession ==
    SessionStart /\ wire = NoLine /\ inbox = NotFollowed
    /\ ManagerIdle /\ WorkerIdle /\ OrchIdle
    /\ LinkIdle /\ PassIdle
SpecSession == InitSession /\ [][NextSession]_vars

\* an open session whose device answers the commands in the order received
InitCorrelate ==
    SessionStart /\ wire = NoLine /\ inbox = <<>>
    /\ ManagerIdle /\ WorkerIdle /\ OrchIdle
    /\ LinkIdle /\ PassIdle
SpecCorrelate == InitCorrelate /\ [][NextCorrelate]_vars

\* an open session and everything that can end or replace it
InitLifecycle ==
    LifecycleStart /\ wire = NoLine /\ inbox = NotFollowed
    /\ ManagerIdle /\ WorkerIdle /\ OrchIdle
    /\ LinkIdle /\ PassIdle
SpecLifecycle == InitLifecycle /\ [][NextLifecycle]_vars

\* the event loop runs every coroutine that is ready and every timer that is
\* due; the device is reachable: again and again a connection attempt
\* succeeds, the welcome line is the right one, a command is answered
SpecRecover ==
    /\ InitLifecycle /\ [][NextRecover]_vars
    /\ WF_vars(ConnectRun) /\ WF_vars(ConnCloseEnd)
    /\ WF_vars(PollRun) /\ WF_vars(PollCloseEnd) /\ WF_vars(PollReconnect)
    /\ \A p \in Loops : WF_vars(PollCancelRun(p))
    /\ WF_vars(DisconnectResume) /\ WF_vars(DisconnectCloseEnd)
    /\ \A t \in Loops \cup {"conn"} :
          /\ WF_vars(WaiterRun(t)) /\ WF_vars(OwnerRun(t))
          /\ WF_vars(TimeoutFire(t)) /\ WF_vars(TimeoutReturn(t))
    /\ SF_vars(OpenResult(TRUE))
    /\ SF_vars(Welcome([code |-> WelcomeCode, rec |-> FALSE]))
    /\ SF_vars(DeviceLine(OkLine))

\* the manager over its engines
SpecManager == Init /\ [][NextManager]_vars

\* the worker and its device lists
SpecWorker == Init /\ [][NextWorker]_vars

\* the worker and a device list that is applied twice
SpecReapply == Init /\ [][NextReapply]_vars

\* the link to Shogun Live: its monitor, its capture calls, Shogun Live
SpecLink == Init /\ [][NextLink]_vars

\* a reconnect cycle, tick by tick
SpecReconnect == Init /\ [][NextReconnect]_vars

\* run() of the Shogun thread with its reconnect cycles; the thread runs:
\* every step of it that is due is taken
SpecMonitor ==
    /\ Init /\ [][NextMonitor]_vars
    /\ WF_vars(MonitorProbe) /\ WF_vars(MonitorCheck)
    /\ WF_vars(ReconnectAttempt(Answering)) /\ WF_vars(ReconnectTick)
    /\ WF_vars(MonitorResume)

\* the worker's monitoring pass and update_devices on the GUI thread
SpecThreads == Init /\ [][NextThreads]_vars

\* the main window with the Shogun thread and a worker holding any table
InitOrch ==
    /\ EngineNew /\ wire = NoLine /\ inbox = NotFollowed /\ ManagerIdle
    /\ \E en \in BOOLEAN : OrchNew(en)
    /\ wloop = TRUE
    /\ wdevices \in OrchTables
    /\ wcalled = FALSE /\ wdesired = <<>> /\ wlog = <<>>
    /\ wconnected = {d \in Ids : wdevices[d] # NoClient}
    /\ LinkIdle /\ PassIdle
SpecOrch == InitOrch /\ [][NextOrch]_vars

\* =========================================================================
\*  Properties of the engine
\* =========================================================================
Outstanding == {f \in fwritten : fstate[f] = "pending"}

C2_ReplyReturned ==
    [][\A t \in Users :
          (connected /\ t \in freplied /\ task[t].pc # "idle"
             /\ task'[t].pc = "idle")
          => task'[t].ret = "reply_ok"]_vars

\* C3: a command that gets no reply within 5 s returns the Timeout result
\* and leaves the slot empty, and with the slot empty a call made on an open
\* session is written at once.  (connect() is left out of the first part:
\* it issues its next command in the step in which the first one returns.)
C3_TimeoutFreesSlot ==
    [][/\ \A t \in Users \cup {"poll"} :
             (task[t].sc = "timedout" /\ task'[t].sc # "timedout")
             => /\ slot' = None
                /\ t \in Users => task'[t].ret = "timeout"
       /\ \A t \in Users :
             (slot = None /\ transport = "open" /\ link
                /\ task[t].pc = "idle" /\ task'[t].pc # "idle")
             => /\ slot' = t
                /\ t \in fwritten'
                /\ task'[t].sc = "waitreply"]_vars

\* one user's command has timed out, and the command of the next caller has
\* been written
C3_Witness ==
    \E t \in Users, u \in Users :
        /\ t # u
        /\ task[t].pc = "idle" /\ task[t].ret = "timeout"
        /\ slot = u /\ u \in Outstanding

\* C4: no call blocks for ever: while a call of a user is in progress (and
\* the owner has connect() calls left), something can still happen on the
\* engine.
C4_CallsReturn ==
    ((\E t \in Users : task[t].pc # "idle") /\ nconn < MaxConnects)
    => ENABLED <<NextEngine>>_vars

\* C5: a reply line read while a command is pending: a code in 500-599
\* leaves the command pending, a code in 100-199 resolves it as a failure,
\* every other code resolves it as a success; the result carries the reply.
C5_Classifier ==
    [][(wire # NoLine /\ wire' = NoLine /\ slot # None
          /\ fstate[slot] = "pending")
       => LET c == wire.code
              f == slot
              r == task'[f].res
          IN  /\ (c >= 500 /\ c <= 599) => fstate'[f] = "pending"
              /\ (c >= 100 /\ c <= 199)
                   => /\ fstate'[f] = "done"
                      /\ r.kind = "reply" /\ r.error /\ r.code = c
              /\ ~(c >= 500 /\ c <= 599) /\ ~(c >= 100 /\ c <= 199)
                   => /\ fstate'[f] = "done"
                      /\ r.kind = "reply" /\ ~r.error /\ r.code = c]_vars

\* a reply of the error band has resolved the pending command as a failure
C5_Witness ==
    /\ wire = NoLine
    /\ task["u1"].sc = "resolved"
    /\ task["u1"].res.kind = "reply" /\ task["u1"].res.error

\* =========================================================================
\*  Properties of the manager
\* =========================================================================
\* the step in which start_recording returns after a failed start
StartFailsNow == fan.op = "rollback" /\ fan'.op = "none"

\* C6: when a fleet start over at least two devices, one of which failed to
\* start, returns, it reports failure, no device is left recording, and a
\* stop has been issued to every device whose start succeeded.
C6_AllOrNothing ==
    [][(StartFailsNow /\ Cardinality(mdevices) >= 2)
       => /\ mret'.op = "start" /\ ~mret'.val
          /\ \A d \in mdevices : ~mengine'[d].recording
          /\ \A d \in fan.ok : fan.res[d] # "none"]_vars

\* the step in which connect_all returns with the results of a gather
ConnectAllReturnsNow == fan.op = "connect" /\ fan'.op = "none"

StopReturnsNow ==
    \/ fan.op \in {"stop", "rollback"} /\ fan'.op = "none"
    \/ fan.op = "none" /\ fan'.op = "none" /\ mret' # mret /\ mret'.op = "stop"

\* C8: when stop_recording returns the manager's recording flag is False,
\* whatever the devices answered, and every device whose stop failed has
\* been reported by error_signal.
C8_StopClearsFlag ==
    [][StopReturnsNow
       => /\ ~mrecording'
          /\ \A d \in mdevices :
                fan.res[d] \in {"false", "exc"} => <<"stop", d>> \in merrors']_vars

\* =========================================================================
\*  Properties of the worker
\* =========================================================================
\* the step in which update_devices runs
ReconcileNow == ~wcalled /\ wcalled'

\* the ids of the entries of a list that are present and enabled
EnabledIds(list) == {DeviceId(list[i], i) : i \in {j \in 1..Len(list) : list[j].enabled}}

Held(devs) == {d \in Ids : devs[d] # NoClient}

\* C9: after update_devices(desired) a client is held only for ids that are
\* present and enabled in desired; every client held for another id has been
\* disconnected and dropped; no session was asked for on behalf of an entry
\* that is not enabled.
C9_ReconcileHolds ==
    [][ReconcileNow
       => /\ Held(wdevices') \subseteq EnabledIds(wdesired')
          /\ \A d \in Held(wdevices) \ EnabledIds(wdesired') :
                /\ wdevices'[d] = NoClient
                /\ \E k \in 1..Len(wlog') :
                      wlog'[k].ev = "disconnect" /\ wlog'[k].id = d
          /\ \A k \in 1..Len(wlog') :
                wlog'[k].ev = "connect"
                => \E i \in 1..Len(wdesired') :
                      /\ wdesired'[i].enabled
                      /\ DeviceId(wdesired'[i], i) = wlog'[k].id
                      /\ wdesired'[i].ip = wlog'[k].host]_vars

\* update_devices has dropped the client of an entry that is now disabled
C9_Witness ==
    /\ wcalled
    /\ \E i \in 1..Len(wdesired) :
          /\ ~wdesired[i].enabled /\ wdesired[i].ip # ""
          /\ wdevices[DeviceId(wdesired[i], i)] = NoClient
          /\ \E k \in 1..Len(wlog) :
                wlog[k].ev = "disconnect" /\ wlog[k].id = DeviceId(wdesired[i], i)

\* C10: after update_devices(desired) every client held is connected to the
\* host and port of an enabled entry with its id; a client whose host or
\* port changed was disconnected before the new session was asked for.
C10_ReconcileEndpoints ==
    [][ReconcileNow
       => /\ \A d \in Held(wdevices') :
                \E i \in 1..Len(wdesired') :
                   /\ wdesired'[i].enabled
                   /\ DeviceId(wdesired'[i], i) = d
                   /\ wdevices'[d].host = wdesired'[i].ip
                   /\ wdevices'[d].port = wdesired'[i].port
          /\ \A d \in Held(wdevices) :
                \A k \in 1..Len(wlog') :
                   (wlog'[k].ev = "connect" /\ wlog'[k].id = d)
                   => \E j \in 1..(k - 1) :
                         wlog'[j].ev = "disconnect" /\ wlog'[j].id = d]_vars

\* =========================================================================
\*  Properties of the engine: failures
\* =========================================================================
\* the polling loop is about to write its status query on a session that is
\* gone: the write raises (ConnectionResetError)
PollWriteFails ==
    /\ ~stopping
    /\ transport # "none" /\ (transport = "closing" \/ ~link)
    /\ \/ /\ task["poll"].pc \in {"start", "sleep1"}
          /\ slot # None => fstate[slot] \notin {"pending", "cancelled"}
       \/ task["poll"].sc = "ready" /\ task["poll"].wake = "ok"

\* C17: when the status query of the polling loop raises an I/O exception
\* and the engine is not stopping, the loop closes the session; when the
\* close is over the transport is released, connected is False and
\* connection_signal(False) is emitted; when the 5 s that follow are over a
\* connect() task is created.
C17_PollFailureReconnects ==
    [][/\ (PollWriteFails /\ task'["poll"] # task["poll"])
          => transport' = "closing" /\ task'["poll"].pc = "closing"
       /\ (task["poll"].pc = "closing" /\ task'["poll"].pc # "closing")
          => /\ transport' = "none" /\ ~connected'
             /\ csig' # csig /\ ~csig'.val
             /\ task'["poll"].pc = "sleep5"
       /\ (task["poll"].pc = "sleep5" /\ task'["poll"].pc # "sleep5"
             /\ ~stopping)
          => task'["conn"].pc = "spawned"]_vars

\* the polling loop has failed, closed the session and, 5 s later, created
\* the connect() task
C17_Witness ==
    /\ task["conn"].pc = "spawned" /\ task["poll"].pc = "sleep1"
    /\ transport = "none" /\ ~connected /\ ~csig.val
\* a user's record/stop/update_clips is about to write its command on a
\* session that is gone
UserWriteFails(t) ==
    /\ transport # "none" /\ (transport = "closing" \/ ~link)
    /\ \/ /\ task[t].pc = "idle"
          /\ slot # None => fstate[slot] \notin {"pending", "cancelled"}
       \/ task[t].sc = "ready" /\ task[t].wake = "ok"

\* C18: a write that fails on a lost session, in a command of a user or
\* of the polling loop, starts the teardown of the session (the transport
\* is being closed when the step is over), and the teardown ends with the
\* transport released, connected False and connection_signal(False).
C18_TransportErrorTearsDown ==
    [][/\ \A t \in Users :
             (connected /\ UserWriteFails(t) /\ slot' = t
                /\ fstate'[t] = "pending")
             => transport' = "closing"
       /\ (PollWriteFails /\ slot' = "poll" /\ fstate'["poll"] = "pending")
             => transport' = "closing"
       /\ (transport = "closing" /\ transport' # "closing")
             => transport' = "none" /\ csig' # csig /\ ~csig'.val]_vars
\* C19: a command the device rejects with an error status code fails only
\* that command: when the call returns the session is open, connected is
\* True, the recording flag is what it was, nothing was emitted on
\* connection_signal and the slot is free; the next call is written.
C19_ErrorReplyFailsOnlyCommand ==
    [][\A t \in Users :
          /\ (task[t].sc = "resolved" /\ task[t].res.kind = "reply"
                /\ task[t].res.error /\ task'[t].pc = "idle")
             => /\ task'[t].ret = "reply_error"
                /\ transport' = "open" /\ link' /\ connected'
                /\ recording' = recording
                /\ csig' = csig
                /\ slot' = None
          /\ (task[t].pc = "idle" /\ task[t].ret = "reply_error"
                /\ slot = None /\ task'[t].pc # "idle")
             => slot' = t /\ t \in fwritten' /\ task'[t].sc = "waitreply"]_vars

\* one user's command was rejected, and the command of the next caller has
\* been written on the same session
C19_Witness ==
    \E t \in Users, u \in Users :
        /\ t # u
        /\ task[t].pc = "idle" /\ task[t].ret = "reply_error"
        /\ slot = u /\ u \in fwritten /\ fstate[u] = "pending"
        /\ transport = "open" /\ connected
StartAllNow == Len(olog') > Len(olog) /\ olog'[Len(olog) + 1].ev = "start_all"
StopAllNow == Len(olog') > Len(olog) /\ olog'[Len(olog) + 1].ev = "stop_all"

\* what the call did, after its own mark
Done == SubSeq(olog', Len(olog) + 2, Len(olog'))

\* C12: start_all_recordings called while ShogunWorker is not connected
\* reports the error and does nothing else: nothing is handed to the Shogun
\* thread, the worker's start_recording is not called, no start is announced.
C12_NotConnectedFails ==
    [][(StartAllNow /\ ~sconnected)
       => /\ Done = <<Ev("error_not_connected", 0)>>
          /\ squeue' = squeue
          /\ scapturing' = scapturing]_vars

\* the call has failed on a window whose worker holds a recorder
C12_Witness ==
    /\ olog # <<>> /\ olog[Len(olog)].ev = "error_not_connected"
    /\ hdenabled /\ HasDevices(wdevices)
\* the call (of start_all_recordings or stop_all_recordings) that the k-th
\* entry of olog belongs to began at entry m
CallOf(k, m) ==
    /\ m < k /\ olog[m].ev \in {"start_all", "stop_all"}
    /\ \A i \in (m + 1)..k : olog[i].ev \notin {"start_all", "stop_all"}

SessionStarted ==
    \E k \in 1..Len(olog) :
        /\ olog[k].ev = "started"
        /\ \A i \in (k + 1)..Len(olog) : olog[i].ev # "stopped"

\* C14: start_all_recordings called after a start was announced (and no stop
\* since) does nothing: nothing is handed to the Shogun thread, the worker
\* is not called, no second start is announced; stop_all_recordings called
\* when no start is standing does nothing.
C14_Reentrant ==
    [][/\ (StartAllNow /\ SessionStarted) => (Done = <<>> /\ squeue' = squeue)
       /\ (StopAllNow /\ ~SessionStarted) => (Done = <<>> /\ squeue' = squeue)]_vars

\* C15: a start is announced only after Shogun Live confirmed the start of
\* the capture asked for by that start_all_recordings.
C15_StartedAfterConfirmed ==
    \A k \in 1..Len(olog) :
        olog[k].ev = "started"
        => \E m \in 1..k, j \in 1..k :
              /\ CallOf(k, m) /\ m < j /\ j < k
              /\ olog[j].ev \in {"capture_confirmed", "capture_already"}

\* C16: start_all_recordings called with ShogunWorker connected, the
\* recorders enabled and no recorder held warns, hands startcapture() to the
\* Shogun thread and announces the start.
C16_SoftDegrade ==
    [][(StartAllNow /\ sconnected /\ hdenabled /\ ~HasDevices(wdevices))
       => /\ Done = <<Ev("warning_no_devices", 0), Ev("capture_start_queued", 0),
                      Ev("started", 0)>>
          /\ squeue' = Append(squeue, "start")]_vars

\* after the warning the capture was asked for, and Shogun Live has started it
C16_Witness ==
    \E k \in 1..Len(olog), j \in 1..Len(olog) :
        /\ olog[k].ev = "warning_no_devices"
        /\ k < Len(olog) /\ olog[k + 1].ev = "capture_start_queued"
        /\ k < j /\ olog[j].ev = "capture_confirmed"
        /\ \A i \in k..j : olog[i].ev # "stop_all"

C22_StopNotSentWhenIdle ==
    [][\A t \in Users :
          (~recording /\ task[t].pc = "idle" /\ task'[t].pc = "stop")
              => t \notin fwritten']_vars

\* =========================================================================
\*  Properties of the link to Shogun Live
\* =========================================================================
\* C23: when a process probe made while the link is Connected sees another
\* pid than the probe before it, the link becomes Disconnected and the
\* observers are told so: connection_signal(False) is emitted by that step.
C23_PidChangeDisconnects ==
    [][(/\ lloop /\ lrunning /\ sconnected
        /\ lpid # 0 /\ shpid # 0 /\ lpid # shpid
        /\ lpid' = shpid)
          => (/\ ~sconnected'
              /\ \E k \in DOMAIN lemit' :
                    lemit'[k] = Sig("connection", B(FALSE)))]_vars

\* C24: the delay computed after failed attempt n of a reconnect cycle is
\* min(1 s * 1.5^(n-1), 15 s), that is 1, 1.5, 2.25, 3.375, 5.0625, 7.59375,
\* 11.390625, 15, 15, 15 s (written here in 64ths of a second); the cycle
\* makes no attempt after ten have failed and then returns failure.
C24_BackoffDelays ==
    LET sixtyfourths == <<64, 96, 144, 216, 324, 486, 729, 960, 960, 960>>
    IN /\ rc.attempt \in 0..10
       /\ rc.attempt >= 1 => rc.delay * 64 = sixtyfourths[rc.attempt] * DelayUnit
       /\ rc.pc = "connect" => rc.attempt < 10
       /\ (rc.pc = "done" /\ rc.attempt = 10) => ~rc.ret

\* ten attempts have failed, the last delay was slept and the cycle returned
\* failure while the link was still running
C24_Witness ==
    /\ rc.pc = "done" /\ rc.attempt = 10 /\ ~rc.ret
    /\ rc.ticks = 0 /\ lrunning

\* C25: once running is cleared while the cycle sleeps its delay, the next
\* step of the cycle (the end of the current 0.1 s tick) returns failure,
\* and no connection attempt is started any more.
C25_StopAbortsBackoff ==
    [][/\ (rc.pc = "sleep" /\ ~lrunning /\ rc' # rc)
            => (rc'.pc = "done" /\ ~rc'.ret /\ rc'.attempt = rc.attempt)
       /\ (~lrunning /\ rc.pc # "connect") => rc'.pc # "connect"]_vars

\* the cycle was stopped in the middle of a delay and returned failure
C25_Witness ==
    /\ rc.pc = "done" /\ ~rc.ret /\ ~lrunning
    /\ rc.attempt \in 1..9 /\ rc.ticks > 1

C27_OneReconnectOneRetry ==
    LET calls == {k \in DOMAIN lop.trace :
                     lop.trace[k] \in {"start_capture", "stop_capture"}}
    IN (lop.op # "none" /\ ~lop.ret /\ calls # {})
          => LET first == CHOOSE k \in calls : \A j \in calls : k <= j IN
             /\ Len(lop.trace) = first + 2
             /\ lop.trace[first + 1] = "reconnect"
             /\ first + 2 \in calls

\* C28: capture_name_changed_signal is emitted only with a polled name that
\* differs from the tracked one (which then becomes the tracked name), and
\* no step emits it while the name in Shogun Live is the tracked name.
C28_NameChangeEdge ==
    [][LET events == {k \in DOMAIN lemit' :
                         lemit'[k].sig = "capture_name_changed"}
       IN /\ \A k \in events : /\ lemit'[k].val # lname
                                /\ lemit'[k].val = shname
                                /\ lname' = lemit'[k].val
          /\ lname = shname => events = {}]_vars

\* a poll has just reported a new capture name
C28_Witness ==
    /\ sconnected /\ lname = shname
    /\ \E k \in DOMAIN lemit : lemit[k] = Sig("capture_name_changed", lname)

\* C29: every startcapture() / stopcapture() that ends in failure has emitted
\* capture_error_signal.
C29_FailuresReported ==
    (lop.op # "none" /\ ~lop.ret)
        => \E k \in DOMAIN lemit : lemit[k].sig = "capture_error"

\* =========================================================================
\*  Properties of the worker's threads
\* =========================================================================
\* C30: while a monitoring pass of run() has clients of the table still to
\* visit, no call from another thread changes the worker's device table or
\* runs a connect / disconnect on the worker's event loop.
C30_NoCallDuringPass ==
    [][(wpass.active /\ wpass.left # {})
          => (wdevices' = wdevices /\ (wlog' = wlog \/ wlog' = <<>>))]_vars

\* =========================================================================
\*  Properties of the link's monitor
\* =========================================================================
\* C31: the interval of the process probe is 2 s at first, every probe that
\* finds the Shogun Live process absent multiplies it by 1.5 up to 5 s, a
\* probe that finds the process present sets it to 2 s, and it is always
\* between 2 s and 5 s.
C31_ProbeInterval ==
    [][/\ lpint >= ProcessCheckInterval * DelayUnit
       /\ lpint <= MaxProcessCheckInterval * DelayUnit
       /\ (lloop /\ lalive # "down" /\ lalive' = "down")
             => 2 * lpint' = IF 3 * lpint < 2 * MaxProcessCheckInterval * DelayUnit
                             THEN 3 * lpint
                             ELSE 2 * MaxProcessCheckInterval * DelayUnit
       /\ (lloop /\ lalive' = "up" /\ (lalive # "up" \/ lpid' # lpid))
             => lpint' = ProcessCheckInterval * DelayUnit]_vars

\* the last step was a connection check of run() that got the recording
\* state from Shogun Live (lines 96-112)
PolledNow ==
    /\ lemit # <<>> /\ lemit[Len(lemit)] = Sig("status", B(TRUE))
    /\ \A k \in DOMAIN lemit : lemit[k].sig # "connection"

\* C39: after a successful status poll the value recording_signal was last
\* emitted with is the recording state Shogun Live reported in that poll
\* (observers that were never told anything take it to be False).
C39_EmittedMatchesPolled ==
    PolledNow => \/ lsaid = B(scapturing)
                 \/ lsaid = "none" /\ ~scapturing

\* a reconnect cycle has made its ten attempts and returned failure
Exhausted == rc.pc = "done" /\ rc.attempt = MaxReconnectAttempts /\ ~rc.ret

\* C32: after a reconnect cycle that used up its attempts, if from some
\* moment on the worker keeps running, the Shogun Live process is present
\* and its API answers, then run() goes on (the cycle is over) and the link
\* becomes Connected again.
C32_RecoversAfterExhaustion ==
    <>[](lrunning /\ Answering)
        => [](Exhausted => <>(rc.pc = "idle" /\ sconnected))

\* a cycle has used up its attempts on a running worker, and Shogun Live
\* answers again
C32_Witness == Exhausted /\ lrunning /\ Answering

\* =========================================================================
\*  Properties of the manager: the aggregate status
\* =========================================================================
\* the manager's recording status is True exactly when the recording flag
\* of at least one of its engines is set
Aggregate == mrecording <=> \E d \in mdevices : mengine[d].recording

\* C33: every step of a fleet start or a fleet stop (a record() or a stop()
\* of one engine with its recording-change event, or the return of the
\* operation) keeps the aggregate status right: taken where the status is
\* True exactly when an engine records, it ends where that is so again.
C33_AggregateRecording ==
    [][(fan.op \in {"start", "stop", "rollback"} /\ Aggregate) => Aggregate']_vars

\* =========================================================================
\*  Properties of the worker: applying a list twice
\* =========================================================================
\* update_devices has returned, a client is held and connected for every
\* entry of the list that is enabled and has an address, and no two of
\* these entries have the same id
Settled ==
    LET wanted == {i \in 1..Len(wdesired) : Wanted(wdesired[i])} IN
    /\ wcalled /\ wloop
    /\ \A i \in wanted : DeviceId(wdesired[i], i) \in Held(wdevices)
    /\ \A i \in wanted, j \in wanted :
          DeviceId(wdesired[i], i) = DeviceId(wdesired[j], j) => i = j
    /\ Held(wdevices) \subseteq wconnected

\* C40: update_devices called a second time with the same list, while every
\* client the first call connected is still connected, closes no session
\* and asks for none.
C40_ReconcileIdempotent ==
    [][(Settled /\ wcalled' /\ wdesired' = wdesired
          /\ (wdevices' # wdevices \/ wlog' # wlog))
       => wlog' = <<>>]_vars
\* the caller u waits for the reply to the command it has sent
Waiting(u) == slot = u /\ fstate[u] = "pending" /\ task[u].sc = "waitreply"

Alive(p) == task[p].pc \notin {"dead", "absent"}

DisconnectReturned == task["disc"].pc = "idle" /\ task["disc"].ret = "done"

\* C36: once disconnect() has returned the engine is disconnected and stays
\* so until its owner calls connect(): no session, no polling loop, no
\* connection attempt
C36_StaysDisconnected ==
    DisconnectReturned =>
        /\ ~connected /\ transport = "none"
        /\ \A p \in Loops : ~Alive(p)
        /\ task["conn"].pc = "idle"

\* a polling failure has closed the session; the loop waits its 5 s
LostByPoll == ~connected /\ \E p \in Loops : task[p].pc = "sleep5"

\* the owner has called disconnect()
OwnerStopped == stopping \/ task["disc"].ret = "done"

\* C37: an engine whose session was closed by a polling failure is connected
\* again at some time, the device being reachable, unless its owner
\* disconnects it
C37_KeepsReconnecting == [](LostByPoll => <>(connected \/ OwnerStopped))

====